---- MODULE Spec2Model ----
(***************************************************************************)
(* sigma-llm-doc: the change-detection cache (cache.py), the content       *)
(* fingerprint (compute_rule_hash) and the orchestrator (processor.py).    *)
(*                                                                         *)
(* The specifications of the module share its variables:                   *)
(*   SpecCache  the Cache object in isolation: construction from any       *)
(*              cache-file state, its mutators, save and should_skip;      *)
(*   SpecHash   compute_rule_hash applied to documents and edited          *)
(*              variants of them;                                          *)
(*   Spec       process_rules: a sequence of runs over a small input tree; *)
(*   SpecRun    process_rules: one run, over every kind of input file,     *)
(*              every concurrency limit and backends that stall;           *)
(*   SpecProvider  one provider.generate call (llm_provider.py);           *)
(*   SpecText   validate_response (validator.py) and the note step of      *)
(*              _process_single_rule applied to texts;                     *)
(*   SpecCheck  check_rules, the audit of existing notes;                  *)
(*   SpecLive   process_rules: one run under every accepted concurrency    *)
(*              limit, with fair scheduling and calls that all come back.  *)
(***************************************************************************)
EXTENDS Integers, Sequences, FiniteSets, TLC

VARIABLES
    cache_file,   \* the file <output_dir>/.sigma-llm-doc-cache.json
    data,         \* Cache.data of the live Cache object (NoCache: none constructed)
    last_call,    \* SpecCache: the Cache operation just applied, its arguments and outcome
    hdoc,         \* SpecHash: the document D handed to compute_rule_hash
    hdoc2,        \* SpecHash: the edited variant D'
    hedit,        \* SpecHash: how D' was obtained from D
    hres,         \* SpecHash: the outcome of hashing D and D'
    in_files,     \* Spec: the input tree, per relative path
    out_files,    \* Spec: the mirrored output tree, per relative path
    phase,        \* Spec: where process_rules is
    cfg,          \* Spec: the arguments of the run (prompt, force, concurrency, max_retries)
    task,         \* Spec: per document, where its process_one task is
    sem,          \* Spec: the value of the asyncio.Semaphore
    result,       \* Spec: the ProcessingResult of the run
    stalled,      \* SpecRun: the documents whose backend call never returns
    gen,          \* SpecProvider: one provider.generate call, its attempts and outcome
    vt,           \* SpecText: a text handed to validate_response or to the note step
    chk           \* SpecCheck: where check_rules is in its loop over the files

cacheVars == <<cache_file, data, last_call>>
hashVars  == <<hdoc, hdoc2, hedit, hres>>
runVars   == <<in_files, out_files, phase, cfg, task, sem, result, stalled>>
auxVars   == <<gen, vt, chk>>
vars      == <<cache_file, data, last_call, hdoc, hdoc2, hedit, hres,
               in_files, out_files, phase, cfg, task, sem, result, stalled,
               gen, vt, chk>>

-----------------------------------------------------------------------------
(* Python / JSON / YAML values.  Every value is a record tagged by t, so    *)
(* that values of different Python types compare unequal.                  *)

Absent    == [t |-> "absent"]                 \* a key that is not in the dict
PyNone    == [t |-> "null"]                   \* None / JSON null / empty YAML
PyList    == [t |-> "list"]                   \* a non-empty list (truthy, no .get)
PyStr(s)  == [t |-> "str", s |-> s]
PyInt(n)  == [t |-> "num", n |-> n]
PyDict(f) == [t |-> "dict", items |-> f]      \* f: a function from keys to values
EmptyDict == PyDict(<< >>)

\* dict.get(key, default)
DictGet(d, key, default) ==
    IF key \in DOMAIN d.items THEN d.items[key] ELSE default

\* d[key] = value
DictSet(d, key, value) ==
    PyDict([k \in (DOMAIN d.items) \cup {key} |->
                IF k = key THEN value ELSE d.items[k]])

\* Python truth value: bool(v)
Truthy(v) ==
    CASE v.t = "null"   -> FALSE
      [] v.t = "absent" -> FALSE
      [] v.t = "str"    -> v.s # ""
      [] v.t = "num"    -> v.n # 0
      [] v.t = "dict"   -> DOMAIN v.items # {}
      [] v.t = "list"   -> TRUE

-----------------------------------------------------------------------------
(* Bounded universes of the inputs.                                        *)

Paths        == {"a.yml", "b.yml"}            \* relative paths (cache keys)
PromptTexts  == {"P1", "P2"}                  \* instruction prompts
WhitespaceOnly == {"", "  "}                  \* the strings str.strip() empties

-----------------------------------------------------------------------------
(* YAML documents.  A mapping keeps the order of its keys (ruamel's        *)
(* CommentedMap): it is a sequence of [k, v] pairs with distinct keys.     *)

YMap(pairs) == [t |-> "map", pairs |-> pairs]

MapHas(m, key) == \E i \in 1..Len(m.pairs) : m.pairs[i].k = key

MapGet(m, key, default) ==
    IF MapHas(m, key)
    THEN (CHOOSE e \in {m.pairs[i] : i \in 1..Len(m.pairs)} : e.k = key).v
    ELSE default

\* del m[key]
MapDel(m, key) == YMap(SelectSeq(m.pairs, LAMBDA e : e.k # key))

\* m[key] = value: in place when the key exists, appended otherwise
MapSet(m, key, value) ==
    IF MapHas(m, key)
    THEN YMap([i \in 1..Len(m.pairs) |->
                 IF m.pairs[i].k = key THEN [k |-> key, v |-> value] ELSE m.pairs[i]])
    ELSE YMap(Append(m.pairs, [k |-> key, v |-> value]))

InsertAt(s, i, e) == SubSeq(s, 1, i - 1) \o <<e>> \o SubSeq(s, i, Len(s))

\* the scalar strings in which the substring "note" occurs
NoteBearingStrings == {"see note"}

\* Python's `key in v` for the values a parsed rule can be (None raises)
PyContains(v, key) ==
    CASE v.t = "map"  -> MapHas(v, key)
      [] v.t = "str"  -> key = "note" /\ v.s \in NoteBearingStrings
      [] OTHER        -> FALSE

\* bool(v) for YAML values
YTruthy(v) == IF v.t = "map" THEN Len(v.pairs) > 0 ELSE Truthy(v)

-----------------------------------------------------------------------------
(* cache.py: compute_rule_hash and compute_prompt_hash                     *)

\* the text the YAML emitter writes for a scalar after "key:"
ScalarText(v) ==
    CASE v.t = "null" -> ""
      [] v.t = "str"  -> IF v.s \in WhitespaceOnly THEN " '" \o v.s \o "'" ELSE " " \o v.s
      [] OTHER        -> " ?"

RECURSIVE DumpPairs(_)
DumpPairs(s) ==
    IF s = << >> THEN ""
    ELSE Head(s).k \o ":" \o ScalarText(Head(s).v) \o "\n" \o DumpPairs(Tail(s))

\* _yaml.dump(value, stream); stream.getvalue()
YamlDump(v) ==
    CASE v.t = "map"  -> IF v.pairs = << >> THEN "{}\n" ELSE DumpPairs(v.pairs)
      [] v.t = "str"  -> v.s \o "\n...\n"
      [] v.t = "list" -> "- item\n"
      [] OTHER        -> "null\n...\n"

\* hashlib.sha256(text.encode()).hexdigest(): collisions are taken as impossible,
\* so the digest names the text it was computed from
Sha256(text) == "sha256<" \o text \o ">"

\* copy.deepcopy: a separate object holding an equal value
DeepCopy(v) == v

\* faulty variants of compute_rule_hash, against which its properties are
\* tested: hashing the note too, hashing the keys only
compute_rule_hash_keeps_note(rule_data) ==
    [raised |-> "", digest |-> Sha256(YamlDump(rule_data)), rule_data |-> rule_data]

compute_rule_hash_keys_only(rule_data) ==
    [raised |-> "",
     digest |-> Sha256(YamlDump(
         IF rule_data.t = "map"
         THEN YMap([i \in 1..Len(MapDel(rule_data, "note").pairs) |->
                      [k |-> MapDel(rule_data, "note").pairs[i].k, v |-> PyNone]])
         ELSE rule_data)),
     rule_data |-> rule_data]

\* compute_rule_hash(rule_data): the digest, the exception raised ("" for none),
\* and the value the caller's rule_data object holds after the call
compute_rule_hash(rule_data) ==
    LET data_copy == DeepCopy(rule_data) IN
    IF rule_data.t \in {"null", "num"}      \* "note" in None, "note" in 5
    THEN [raised |-> "TypeError", digest |-> "", rule_data |-> rule_data]
    ELSE IF PyContains(data_copy, "note")
    THEN IF data_copy.t = "map"
         THEN [raised |-> "",
               digest |-> Sha256(YamlDump(MapDel(data_copy, "note"))),
               rule_data |-> rule_data]
         ELSE [raised |-> "TypeError", digest |-> "", rule_data |-> rule_data]
    ELSE [raised |-> "", digest |-> Sha256(YamlDump(data_copy)), rule_data |-> rule_data]

compute_prompt_hash(prompt_text) == Sha256(prompt_text)

-----------------------------------------------------------------------------
(* cache.py: class Cache                                                   *)

CACHE_VERSION == 1

\* the timestamp update_rule stamps an entry with
NowStamp == "2026-01-01T00:00:00+00:00"

\* Cache.__init__: the index a Cache starts from before _load
FreshData ==
    PyDict([k \in {"version", "prompt_hash", "rules"} |->
              CASE k = "version"     -> PyInt(CACHE_VERSION)
                [] k = "prompt_hash" -> PyStr("")
                [] k = "rules"       -> EmptyDict])

\* json.dump(self.data, f) and json.load(f): a str-keyed dict of str, int,
\* None, list and dict values is written as the JSON object of the same
\* members and read back as that dict
JsonDump(value) == [kind |-> "json", value |-> value]
JsonLoad(file)  == file.value

\* len(v): None and numbers have no len()
HasLen(v) == v.t \in {"dict", "list", "str"}

\* Cache(output_dir): __init__ followed by _load.  raised names the
\* exception that leaves the constructor ("" for none)
_load(file) ==
    CASE file.kind = "missing"     -> [raised |-> "", data |-> FreshData]
      [] file.kind = "unreadable"  -> [raised |-> "", data |-> FreshData]     \* OSError, caught
      [] file.kind = "notjson"     -> [raised |-> "", data |-> FreshData]     \* JSONDecodeError, caught
      [] file.kind = "undecodable" -> [raised |-> "UnicodeDecodeError", data |-> FreshData]
      [] file.kind = "json" ->
            LET loaded == JsonLoad(file) IN
            IF loaded.t # "dict" \/ DictGet(loaded, "version", PyNone) # PyInt(CACHE_VERSION)
            THEN [raised |-> "", data |-> FreshData]
            ELSE IF HasLen(DictGet(loaded, "rules", EmptyDict))   \* the logger.debug argument
                 THEN [raised |-> "", data |-> loaded]
                 ELSE [raised |-> "TypeError", data |-> loaded]

\* str(v).strip() == "" for the values a note can be
Str(v) ==
    CASE v.t = "str"  -> v.s
      [] v.t = "null" -> "None"
      [] OTHER        -> "[...]"

Strip(s) == IF s \in WhitespaceOnly THEN "" ELSE s

\* yaml.load(open(output_file)) inside should_skip's try block
ReadYaml(file) ==
    CASE file.kind = "unreadable" -> [raised |-> "OSError", value |-> PyNone]
      [] file.kind = "unparsable" -> [raised |-> "YAMLError", value |-> PyNone]
      [] OTHER                    -> [raised |-> "", value |-> file.value]

\* lines 135-146 of should_skip: the inspection of the output file
NoteCheck(output_file) ==
    LET rd == ReadYaml(output_file)
        out_data == rd.value
    IN IF rd.raised # "" THEN "False"                               \* except Exception
       ELSE IF YTruthy(out_data) /\ out_data.t # "map" THEN "False" \* .get: AttributeError, caught
       ELSE LET note == IF YTruthy(out_data) THEN MapGet(out_data, "note", PyStr(""))
                        ELSE PyStr("")
            IN IF ~Truthy(note) \/ Strip(Str(note)) = "" THEN "False" ELSE "True"

\* faulty variants of should_skip, against which its properties are tested:
\* without the note check, catching only I/O errors, without the prompt check
should_skip_no_note_check(d, relative_path, content_hash, prompt_hash, output_file) ==
    IF DictGet(d, "prompt_hash", PyNone) # PyStr(prompt_hash) THEN "False"
    ELSE LET rules == DictGet(d, "rules", EmptyDict) IN
         IF rules.t # "dict" THEN "AttributeError"
         ELSE LET entry == DictGet(rules, relative_path, PyNone) IN
              IF ~Truthy(entry) THEN "False"
              ELSE IF entry.t # "dict" THEN "AttributeError"
              ELSE IF DictGet(entry, "content_hash", PyNone) # PyStr(content_hash) THEN "False"
              ELSE IF output_file.kind = "absent" THEN "False"
              ELSE "True"

should_skip_narrow_except(d, relative_path, content_hash, prompt_hash, output_file) ==
    IF DictGet(d, "prompt_hash", PyNone) # PyStr(prompt_hash) THEN "False"
    ELSE LET rules == DictGet(d, "rules", EmptyDict) IN
         IF rules.t # "dict" THEN "AttributeError"
         ELSE LET entry == DictGet(rules, relative_path, PyNone) IN
              IF ~Truthy(entry) THEN "False"
              ELSE IF entry.t # "dict" THEN "AttributeError"
              ELSE IF DictGet(entry, "content_hash", PyNone) # PyStr(content_hash) THEN "False"
              ELSE IF output_file.kind = "absent" THEN "False"
              ELSE IF ReadYaml(output_file).raised = "YAMLError" THEN "YAMLError"
              ELSE NoteCheck(output_file)

should_skip_ignores_prompt(d, relative_path, content_hash, prompt_hash, output_file) ==
    LET rules == DictGet(d, "rules", EmptyDict) IN
    IF rules.t # "dict" THEN "AttributeError"
    ELSE LET entry == DictGet(rules, relative_path, PyNone) IN
         IF ~Truthy(entry) THEN "False"
         ELSE IF entry.t # "dict" THEN "AttributeError"
         ELSE IF DictGet(entry, "content_hash", PyNone) # PyStr(content_hash) THEN "False"
         ELSE IF output_file.kind = "absent" THEN "False"
         ELSE NoteCheck(output_file)

\* Cache.should_skip on the index d: "True", "False", or the exception raised
should_skip(d, relative_path, content_hash, prompt_hash, output_file) ==
    IF DictGet(d, "prompt_hash", PyNone) # PyStr(prompt_hash) THEN "False"
    ELSE LET rules == DictGet(d, "rules", EmptyDict) IN
         IF rules.t # "dict" THEN "AttributeError"                 \* rules.get
         ELSE LET entry == DictGet(rules, relative_path, PyNone) IN
              IF ~Truthy(entry) THEN "False"
              ELSE IF entry.t # "dict" THEN "AttributeError"       \* entry.get
              ELSE IF DictGet(entry, "content_hash", PyNone) # PyStr(content_hash) THEN "False"
              ELSE IF output_file.kind = "absent" THEN "False"
              ELSE NoteCheck(output_file)

\* the entry update_rule writes
NewEntry(content_hash) ==
    PyDict([k \in {"content_hash", "last_processed"} |->
              IF k = "content_hash" THEN PyStr(content_hash) ELSE PyStr(NowStamp)])

\* Cache.update_rule on the index d: the exception raised and the index after
update_rule(d, relative_path, content_hash) ==
    LET d1 == IF "rules" \in DOMAIN d.items THEN d ELSE DictSet(d, "rules", EmptyDict)
        rules == d1.items["rules"]
    IN IF rules.t # "dict"
       THEN [raised |-> "TypeError", data |-> d1]                  \* item assignment
       ELSE [raised |-> "",
             data |-> DictSet(d1, "rules", DictSet(rules, relative_path, NewEntry(content_hash)))]

\* Cache.set_prompt_hash
set_prompt_hash(d, prompt_hash) == DictSet(d, "prompt_hash", PyStr(prompt_hash))

\* a faulty save, against which the round trip is tested: the prompt hash is
\* not written
save_drops_prompt_hash(file, d) ==
    {[result |-> "written", file |-> JsonDump(DictSet(d, "prompt_hash", PyStr("")))]}

\* Cache.save: the outcomes of the write.  An OSError is logged, not raised:
\* before the file is opened it leaves the file as it was, after that it
\* leaves a truncated file.
save(file, d) ==
    { [result |-> "written",        file |-> JsonDump(d)],
      [result |-> "failed_to_open", file |-> file],
      [result |-> "failed_to_write", file |-> [kind |-> "notjson"]] }

-----------------------------------------------------------------------------
(* SpecCache: one Cache object at a time on one output directory.          *)

NoCache == [t |-> "nocache"]

\* two rule bodies and their content hashes; the prompt hashes
RuleA == YMap(<<[k |-> "title", v |-> PyStr("x")]>>)
RuleB == YMap(<<[k |-> "title", v |-> PyStr("y")]>>)
ContentHashes == {compute_rule_hash(D).digest : D \in {RuleA, RuleB}}
PromptHashes  == {compute_prompt_hash(text) : text \in PromptTexts}

\* a JSON object with the given members (Absent: the key is left out)
Index(version, prompt_hash, rules) ==
    LET m == [k \in {"version", "prompt_hash", "rules"} |->
                CASE k = "version"     -> version
                  [] k = "prompt_hash" -> prompt_hash
                  [] k = "rules"       -> rules]
    IN PyDict([k \in {x \in DOMAIN m : m[x] # Absent} |-> m[k]])

OneRule(path, entry) == PyDict([k \in {path} |-> entry])

StampOnly == PyDict([k \in {"last_processed"} |-> PyStr("2025-01-01T00:00:00+00:00")])

\* the cache files a run can come upon
InitialCacheFiles ==
    LET h1 == PyStr(compute_prompt_hash("P1"))
        c1 == compute_rule_hash(RuleA).digest
    IN { [kind |-> "missing"], [kind |-> "unreadable"], [kind |-> "undecodable"],
         [kind |-> "notjson"],
         JsonDump(PyList),
         JsonDump(Index(PyInt(2), h1, OneRule("a.yml", NewEntry(c1)))),
         JsonDump(Index(Absent, h1, OneRule("a.yml", NewEntry(c1)))),
         JsonDump(Index(PyInt(CACHE_VERSION), Absent, Absent)),
         JsonDump(Index(PyInt(CACHE_VERSION), PyNone, EmptyDict)),
         JsonDump(Index(PyInt(CACHE_VERSION), h1, PyNone)),
         JsonDump(Index(PyInt(CACHE_VERSION), h1, PyList)),
         JsonDump(Index(PyInt(CACHE_VERSION), h1, OneRule("a.yml", PyNone))),
         JsonDump(Index(PyInt(CACHE_VERSION), h1, OneRule("a.yml", PyList))),
         JsonDump(Index(PyInt(CACHE_VERSION), h1, OneRule("a.yml", EmptyDict))),
         JsonDump(Index(PyInt(CACHE_VERSION), h1, OneRule("a.yml", StampOnly))),
         JsonDump(Index(PyInt(CACHE_VERSION), h1, OneRule("a.yml", NewEntry(c1)))) }

\* the states of an output file should_skip can be asked about
NoteValues == {PyNone, PyStr(""), PyStr("  "), PyStr("guide")}
OutputFiles ==
    { [kind |-> "absent"], [kind |-> "unreadable"], [kind |-> "unparsable"] }
    \cup {[kind |-> "yaml", value |-> v] :
            v \in {PyNone, PyStr("text"), PyList, YMap(<< >>), RuleA}
                  \cup {MapSet(RuleA, "note", n) : n \in NoteValues}}

CacheInit ==
    /\ cache_file \in InitialCacheFiles
    /\ data = NoCache
    /\ last_call = [op |-> "none"]

\* what a step of SpecCache leaves alone
CacheFrame == UNCHANGED <<hashVars, runVars, auxVars>>

\* cache = Cache(output_dir)
CConstruct ==
    /\ LET r == _load(cache_file) IN
        /\ data' = IF r.raised = "" THEN r.data ELSE NoCache
        /\ last_call' = [op |-> "Cache", raised |-> r.raised,
                         after_save |-> last_call.op = "save" /\ last_call.result = "written"]
    /\ UNCHANGED cache_file
    /\ CacheFrame

\* cache.set_prompt_hash(h)
CSetPromptHash ==
    /\ data # NoCache
    /\ \E h \in PromptHashes :
        /\ data' = set_prompt_hash(data, h)
        /\ last_call' = [op |-> "set_prompt_hash", prompt_hash |-> h]
    /\ UNCHANGED cache_file
    /\ CacheFrame

\* cache.update_rule(path, h)
CUpdateRule ==
    /\ data # NoCache
    /\ \E path \in Paths, h \in ContentHashes :
        LET r == update_rule(data, path, h) IN
        /\ data' = r.data
        /\ last_call' = [op |-> "update_rule", raised |-> r.raised,
                         relative_path |-> path, content_hash |-> h]
    /\ UNCHANGED cache_file
    /\ CacheFrame

\* cache.save()
CSave ==
    /\ data # NoCache
    /\ \E o \in save(cache_file, data) :
        /\ cache_file' = o.file
        /\ last_call' = [op |-> "save", result |-> o.result]
    /\ UNCHANGED data
    /\ CacheFrame

\* cache.should_skip(path, content_hash, prompt_hash, output_file).  The call
\* changes nothing but last_call, so a call that follows another call reaches
\* no state that the later call alone does not reach: only that one is taken.
CShouldSkip ==
    /\ data # NoCache
    /\ last_call.op # "should_skip"
    /\ \E path \in Paths, ch \in ContentHashes, ph \in PromptHashes, of \in OutputFiles :
        last_call' = [op |-> "should_skip", relative_path |-> path, content_hash |-> ch,
                      prompt_hash |-> ph, output_file |-> of,
                      result |-> should_skip(data, path, ch, ph, of)]
    /\ UNCHANGED <<cache_file, data>>
    /\ CacheFrame

CacheNext == CConstruct \/ CSetPromptHash \/ CUpdateRule \/ CSave \/ CShouldSkip

-----------------------------------------------------------------------------
(* SpecHash: compute_rule_hash on a document D and on an edited D'.        *)

HKeys     == {"title", "level", "note"}
HValues   == {PyStr("x"), PyStr("y")}
HPairs    == {[k |-> key, v |-> val] : key \in HKeys, val \in HValues}

DistinctKeys(s) == \A i, j \in 1..Len(s) : i # j => s[i].k # s[j].k

\* every mapping over HKeys, in every key order
HDocs ==
    {YMap(s) : s \in {q \in UNION {[1..n -> HPairs] : n \in 0..Cardinality(HKeys)} :
                        DistinctKeys(q)}}

\* D with only its note field added, removed or changed
NoteEdits(D) ==
    IF MapHas(D, "note")
    THEN {MapDel(D, "note")}
         \cup {MapSet(D, "note", val) : val \in HValues \ {MapGet(D, "note", PyNone)}}
    ELSE {YMap(InsertAt(D.pairs, i, [k |-> "note", v |-> val])) :
              i \in 1..(Len(D.pairs) + 1), val \in HValues}

\* D with one field other than note changed, added or removed
FieldEdits(D) ==
    UNION {
        IF MapHas(D, key)
        THEN {MapDel(D, key)}
             \cup {MapSet(D, key, val) : val \in HValues \ {MapGet(D, key, PyNone)}}
        ELSE {YMap(InsertAt(D.pairs, i, [k |-> key, v |-> val])) :
                  i \in 1..(Len(D.pairs) + 1), val \in HValues}
        : key \in HKeys \ {"note"}}

\* D with the same keys and values in another key order
KeyReorders(D) ==
    {E \in HDocs : /\ E # D
                   /\ Len(E.pairs) = Len(D.pairs)
                   /\ {E.pairs[i] : i \in 1..Len(E.pairs)}
                        = {D.pairs[i] : i \in 1..Len(D.pairs)}}

NoRes == [done |-> FALSE]

\* what a step of SpecHash leaves alone
HashFrame == UNCHANGED <<cacheVars, runVars, auxVars>>

HashInit ==
    /\ hdoc \in HDocs
    /\ hdoc2 = hdoc
    /\ hedit = "none"
    /\ hres = NoRes

HEditNote ==
    /\ hedit = "none" /\ hres = NoRes
    /\ hdoc2' \in NoteEdits(hdoc)
    /\ hedit' = "note"
    /\ UNCHANGED <<hdoc, hres>>
    /\ HashFrame

HEditField ==
    /\ hedit = "none" /\ hres = NoRes
    /\ hdoc2' \in FieldEdits(hdoc)
    /\ hedit' = "field"
    /\ UNCHANGED <<hdoc, hres>>
    /\ HashFrame

HReorder ==
    /\ hedit = "none" /\ hres = NoRes
    /\ hdoc2' \in KeyReorders(hdoc)
    /\ hedit' = "order"
    /\ UNCHANGED <<hdoc, hres>>
    /\ HashFrame

\* h = compute_rule_hash(D); h' = compute_rule_hash(D'): the two objects are
\* replaced by what the calls leave in them
HCompute ==
    /\ hres = NoRes
    /\ LET r1 == compute_rule_hash(hdoc)
           r2 == compute_rule_hash(hdoc2)
       IN /\ hres' = [done |-> TRUE, before |-> hdoc, before2 |-> hdoc2,
                      raised |-> r1.raised # "" \/ r2.raised # "",
                      h |-> r1.digest, h2 |-> r2.digest]
          /\ hdoc' = r1.rule_data
          /\ hdoc2' = r2.rule_data
    /\ UNCHANGED hedit
    /\ HashFrame

HashNext == HEditNote \/ HEditField \/ HReorder \/ HCompute

-----------------------------------------------------------------------------
(* processor.py: process_rules and _process_single_rule.                   *)
(* The document tasks are coroutines on one event loop: a task runs alone  *)
(* from one await to the next, and awaits only the semaphore and           *)
(* provider.generate.                                                      *)

MaxConcurrency == 2     \* the concurrency argument of the runs
MaxRetries     == 2     \* the largest max_retries argument tried

\* the states of an input file
Unparsable == [kind |-> "unparsable"]
AbsentFile == [kind |-> "absent"]
YamlFile(v) == [kind |-> "yaml", value |-> v]
InputFiles == {AbsentFile, Unparsable, YamlFile(PyNone), YamlFile(RuleA), YamlFile(RuleB)}

\* the input tree: a.yml takes every state, b.yml is there or not
InputFilesOf(p) == IF p = "a.yml" THEN InputFiles ELSE {AbsentFile, YamlFile(RuleB)}
InputTrees == {f \in [Paths -> InputFiles] : \A p \in Paths : f[p] \in InputFilesOf(p)}

\* f.read() of a rule file: the text that parses to its value
RawText(file) == YamlDump(file.value)

\* what provider.generate can do: raise (a transient error once its own
\* retries are used up, or a non-retryable error at once), or return a text
\* that has or lacks the required structure and the disclaimer line
Responses ==
    {[raised |-> TRUE, transient |-> t, body_ok |-> FALSE, disclaimer |-> FALSE] :
        t \in BOOLEAN}
    \cup {[raised |-> FALSE, transient |-> FALSE, body_ok |-> b, disclaimer |-> d] :
            b, d \in BOOLEAN}

\* the guide the backend writes for a prompt and a rule text
GuideText(prompt_text, rule_text) == "guide<" \o prompt_text \o "|" \o rule_text \o ">"

\* validator.py line 16: the marker validate_response looks for
DISCLAIMER_PREFIX == "> **Disclaimer:**"

\* processor.py line 13 imports DISCLAIMER_TEXT from the validator, whose
\* source does not define it: the fixed disclaimer line of the
\* specification, which opens with the marker
DISCLAIMER_TEXT == DISCLAIMER_PREFIX \o " generated text"

\* validate_response(raw_response).passed: every rule, the disclaimer rule among them
ValidationPassed(resp) == resp.body_ok /\ resp.disclaimer

\* lines 262-265: the cleaned text, with the disclaimer block appended when
\* the text lacks it
FinalNote(prompt_text, rule_text) ==
    GuideText(prompt_text, rule_text) \o "\n\n" \o DISCLAIMER_TEXT \o "\n"

\* errs: what provider.generate has raised for the document in this loop
\* ("none", "transient": only transient errors, "fatal": a non-retryable one)
\* rejected: why the answer to the last generate call was not accepted, while
\* the loop goes on ("disclaimer": it lacked the disclaimer marker and
\* nothing else, "rules": it broke another rule, "none": it did not return)
NoTask == [pc |-> "none", attempt |-> 0, calls |-> 0, outcome |-> "", errs |-> "none",
           rejected |-> "none"]
NoResult == [total |-> 0, processed |-> 0, skipped |-> 0, failed |-> 0, failures |-> << >>]
NoCfg == [prompt_text |-> "", force |-> FALSE, concurrency |-> 0, max_retries |-> 0]

RunInit ==
    /\ in_files \in InputTrees
    /\ out_files = [p \in Paths |-> AbsentFile]
    /\ phase = "idle"
    /\ cfg = NoCfg
    /\ task = [p \in Paths |-> NoTask]
    /\ sem = 0
    /\ result = NoResult
    /\ stalled = {}

\* what a step of Spec leaves alone
RunFrame == UNCHANGED <<hashVars, last_call, stalled, auxVars>>

\* between runs a rule file is edited, added or removed
EditInput ==
    /\ phase = "idle"
    /\ \E p \in Paths, f \in InputFiles :
        /\ f # in_files[p]
        /\ in_files' = [in_files EXCEPT ![p] = f]
        /\ in_files' \in InputTrees
    /\ UNCHANGED <<cache_file, data, out_files, phase, cfg, task, sem, result>>
    /\ RunFrame

\* _collect_yaml_files
YamlFiles == {p \in Paths : in_files[p].kind # "absent"}

\* process_rules(prompt, force, concurrency, max_retries) up to
\* asyncio.gather (lines 98-149)
Launch(prompt, f, c, m) ==
    LET r == _load(cache_file) IN
    /\ cfg' = [prompt_text |-> prompt, force |-> f, concurrency |-> c, max_retries |-> m]
    /\ IF r.raised # ""
       THEN /\ phase' = "raised"                 \* Cache(output_dir) raised
            /\ UNCHANGED <<data, task, sem, result>>
       ELSE /\ data' = r.data
            /\ result' = [NoResult EXCEPT !.total = Cardinality(YamlFiles)]
            /\ IF YamlFiles = {}
               THEN /\ phase' = "fatal"          \* raise SystemExit(1)
                    /\ UNCHANGED <<task, sem>>
               ELSE /\ phase' = "running"
                    /\ sem' = c
                    /\ task' = [p \in Paths |->
                                  IF p \in YamlFiles
                                  THEN [NoTask EXCEPT !.pc = "waiting"]
                                  ELSE NoTask]
    /\ UNCHANGED <<cache_file, in_files, out_files>>

\* a run of Spec: as many slots as there are documents and one attempt per
\* document (SpecRun takes the other limits)
StartRun ==
    /\ phase = "idle"
    /\ \E prompt \in PromptTexts, f \in BOOLEAN,
          c \in {MaxConcurrency}, m \in {1} : Launch(prompt, f, c, m)
    /\ RunFrame

PromptHash == compute_prompt_hash(cfg.prompt_text)

\* a faulty Failure, against which the counters are tested: the description
\* is recorded and the counter is not incremented
Failure_uncounted(res, text) == [res EXCEPT !.failures = Append(@, text)]

\* result.failed += 1; result.failures.append(text)
Failure(res, text) ==
    [res EXCEPT !.failed = @ + 1, !.failures = Append(@, text)]

TaskDone(p, outcome) ==
    [task EXCEPT ![p].pc = "done", ![p].outcome = outcome,
                 ![p].attempt = 0, ![p].errs = "none", ![p].rejected = "none"]
TaskRaised(p, exc) ==
    [task EXCEPT ![p].pc = "raised", ![p].outcome = exc,
                 ![p].attempt = 0, ![p].errs = "none", ![p].rejected = "none"]

\* async with semaphore: a task gets past it when the value is positive
Acquirable_always(value) == TRUE

Acquirable(value) == value > 0

\* leaving the async with block gives the slot back
Release_lost(value) == value

Release(value) == value + 1

\* a faulty skip check, against which the force flag is tested: the cache
\* is consulted whatever the flag says
SkipVerdict_ignores_force(p, content_hash) ==
    should_skip(data, p, content_hash, PromptHash, out_files[p])

\* line 210: `not force and cache.should_skip(...)`; with force set
\* should_skip is not called
SkipVerdict(p, content_hash) ==
    IF cfg.force THEN "False"
    ELSE should_skip(data, p, content_hash, PromptHash, out_files[p])

\* process_one from the acquisition of the semaphore to the first
\* provider.generate call, or to the return before it (lines 134, 175-225)
Begin(p) ==
    /\ phase = "running"
    /\ task[p].pc = "waiting"
    /\ Acquirable(sem)
    /\ LET file == in_files[p] IN
       IF file.kind = "unparsable"
       THEN /\ result' = Failure(result, p \o ": YAML parse error")
            /\ task' = TaskDone(p, "failed")
            /\ UNCHANGED sem
       ELSE IF file.value = PyNone
       THEN /\ result' = Failure(result, p \o ": Empty YAML file")
            /\ task' = TaskDone(p, "failed")
            /\ UNCHANGED sem
       ELSE LET h == compute_rule_hash(file.value)
                skip == IF h.raised # "" THEN "False" ELSE SkipVerdict(p, h.digest)
            IN IF h.raised # ""
               THEN /\ task' = TaskRaised(p, h.raised)
                    /\ UNCHANGED <<sem, result>>
               ELSE IF skip = "True"
               THEN /\ result' = [result EXCEPT !.skipped = @ + 1]
                    /\ task' = TaskDone(p, "skipped")
                    /\ UNCHANGED sem
               ELSE IF skip # "False"
               THEN /\ task' = TaskRaised(p, skip)
                    /\ UNCHANGED <<sem, result>>
               ELSE IF file.kind = "yaml_once"      \* open(rule_file) raises
               THEN /\ task' = TaskRaised(p, "FileNotFoundError")
                    /\ UNCHANGED <<sem, result>>
               ELSE /\ task' = [task EXCEPT ![p].pc = "generating",
                                            ![p].attempt = 1, ![p].calls = 1]
                    /\ sem' = sem - 1
                    /\ UNCHANGED result
    /\ UNCHANGED <<cache_file, data, in_files, out_files, phase, cfg>>
    /\ RunFrame

\* lines 261-282 once a response has passed: the note is set and the document
\* written.  The outcomes of the write: done; open() raised (the output file
\* is as it was); the dump raised after open() truncated the file; mkdir
\* raised (outside the try block, so the task raises)
WriteOutcomes == {"written", "open_failed", "dump_failed", "mkdir_failed"}

\* a faulty write step, against which the order of write and cache update
\* is tested: the entry is recorded although the write failed
AfterFailedWrite_updates(d, upd) == upd.data

\* lines 275-279: the except branch of the write returns before
\* cache.update_rule (line 281), so the index stays as it was
AfterFailedWrite(d, upd) == d

Finalize(p, outcome) ==
    LET file == in_files[p]
        h == compute_rule_hash(file.value).digest
        note == FinalNote(cfg.prompt_text, RawText(file))
        upd == update_rule(data, p, h)
    IN CASE file.value.t # "map" ->        \* rule_data["note"] = ... raises
              /\ task' = TaskRaised(p, "TypeError")
              /\ UNCHANGED <<out_files, data, result>>
         [] file.value.t = "map" /\ outcome = "mkdir_failed" ->
              /\ task' = TaskRaised(p, "OSError")
              /\ UNCHANGED <<out_files, data, result>>
         [] file.value.t = "map" /\ outcome = "open_failed" ->
              /\ result' = Failure(result, p \o ": Write error")
              /\ task' = TaskDone(p, "failed")
              /\ data' = AfterFailedWrite(data, upd)
              /\ UNCHANGED out_files
         [] file.value.t = "map" /\ outcome = "dump_failed" ->
              /\ out_files' = [out_files EXCEPT ![p] = YamlFile(PyNone)]
              /\ result' = Failure(result, p \o ": Write error")
              /\ task' = TaskDone(p, "failed")
              /\ data' = AfterFailedWrite(data, upd)
         [] file.value.t = "map" /\ outcome = "written" ->
              /\ out_files' = [out_files EXCEPT
                                 ![p] = YamlFile(MapSet(file.value, "note", PyStr(note)))]
              /\ IF upd.raised # ""
                 THEN /\ task' = TaskRaised(p, upd.raised)
                      /\ UNCHANGED <<data, result>>
                 ELSE /\ data' = upd.data
                      /\ result' = [result EXCEPT !.processed = @ + 1]
                      /\ task' = TaskDone(p, "processed")

\* a faulty loop, against which the number of calls is tested: it makes
\* one attempt more
LastAttempt_one_more(attempt, max_retries) == attempt = max_retries + 1

\* for attempt in range(1, max_retries + 1) (line 219) and the test
\* attempt == max_retries (line 229): the attempt after which the loop ends
LastAttempt(attempt, max_retries) == attempt = max_retries

\* provider.generate returns or raises: the rest of that attempt of the
\* validation-retry loop, up to the next generate call or the task's end
\* (lines 223-282)
Generated(p) ==
    /\ phase = "running"
    /\ task[p].pc = "generating"
    /\ p \notin stalled
    /\ \E resp \in Responses, w \in WriteOutcomes :
        LET last == LastAttempt(task[p].attempt, cfg.max_retries)
            errs == CASE ~resp.raised -> task[p].errs
                      [] resp.raised /\ ~resp.transient -> "fatal"
                      [] resp.raised /\ resp.transient ->
                            IF task[p].errs = "fatal" THEN "fatal" ELSE "transient"
            rejected == CASE resp.raised -> "none"
                          [] ~resp.raised /\ resp.body_ok -> "disclaimer"
                          [] OTHER -> "rules"
            again == [task EXCEPT ![p].attempt = @ + 1, ![p].calls = @ + 1,
                                  ![p].errs = errs, ![p].rejected = rejected]
        IN IF resp.raised
           THEN IF last
                THEN /\ result' = Failure(result, p \o ": API error")
                     /\ task' = TaskDone(p, "failed")
                     /\ sem' = Release(sem)
                     /\ UNCHANGED <<out_files, data>>
                ELSE /\ task' = again
                     /\ UNCHANGED <<sem, result, out_files, data>>
           ELSE IF ValidationPassed(resp)
           THEN /\ Finalize(p, w)
                /\ sem' = Release(sem)
           ELSE IF last
                THEN /\ result' = Failure(result, p \o ": Validation failed "
                                                    \o ToString(cfg.max_retries) \o "x")
                     /\ task' = TaskDone(p, "failed")
                     /\ sem' = Release(sem)
                     /\ UNCHANGED <<out_files, data>>
                ELSE /\ task' = again
                     /\ UNCHANGED <<sem, result, out_files, data>>
    /\ UNCHANGED <<cache_file, in_files, phase, cfg>>
    /\ RunFrame

\* a task raised: gather re-raises in process_rules, which returns no result
\* and saves nothing; asyncio.run cancels the tasks still pending.  Until
\* process_rules is resumed the other tasks may still take steps.
RunRaised ==
    /\ phase = "running"
    /\ \E p \in Paths : task[p].pc = "raised"
    /\ phase' = "raised"
    /\ task' = [p \in Paths |->
                  IF task[p].pc \in {"waiting", "generating"}
                  THEN [task[p] EXCEPT !.pc = "cancelled"] ELSE task[p]]
    /\ result' = NoResult
    /\ UNCHANGED <<cache_file, data, in_files, out_files, cfg, sem>>
    /\ RunFrame

\* every task is done: cache.set_prompt_hash, cache.save, return result
\* (lines 149-155)
Finish ==
    /\ phase = "running"
    /\ \A p \in YamlFiles : task[p].pc = "done"
    /\ data' = set_prompt_hash(data, PromptHash)
    /\ \E o \in save(cache_file, data') : cache_file' = o.file
    /\ phase' = "returned"
    /\ UNCHANGED <<in_files, out_files, cfg, task, sem, result>>
    /\ RunFrame

\* the process ends; nothing of the run but the files outlives it
Exit ==
    /\ phase \in {"returned", "raised", "fatal"}
    /\ phase' = "idle"
    /\ cfg' = NoCfg
    /\ task' = [p \in Paths |-> NoTask]
    /\ sem' = 0
    /\ result' = NoResult
    /\ data' = NoCache
    /\ UNCHANGED <<cache_file, in_files, out_files>>
    /\ RunFrame

RunNext ==
    \/ EditInput
    \/ StartRun
    \/ \E p \in Paths : Begin(p)
    \/ \E p \in Paths : Generated(p)
    \/ RunRaised
    \/ Finish
    \/ Exit

-----------------------------------------------------------------------------
(* SpecRun: one run of process_rules.  The rule files take every kind of   *)
(* content, the concurrency limit may be smaller than the number of        *)
(* documents, and the backend calls of some documents never return.        *)

\* a rule file that can be read once: it is gone when it is opened again
ReadableOnce(v) == [kind |-> "yaml_once", value |-> v]

\* the states of a.yml: those of Spec, documents that parse to a list, a
\* scalar or a number, and a file that disappears during the run
RunInputFiles ==
    InputFiles \cup {YamlFile(PyList), YamlFile(PyStr("text")), YamlFile(PyInt(5)),
                     ReadableOnce(RuleA)}

RunInputTrees ==
    {f \in [Paths -> RunInputFiles] :
        f["a.yml"] \in RunInputFiles /\ f["b.yml"] \in InputFilesOf("b.yml")}

\* what an earlier run under prompt_text that processed a.yml = D has left:
\* the output file it wrote and the index it saved
ProcessedOutput(prompt_text, D) ==
    YamlFile(MapSet(D, "note", PyStr(FinalNote(prompt_text, YamlDump(D)))))
SavedIndex(prompt_text, D) ==
    JsonDump(set_prompt_hash(
                update_rule(FreshData, "a.yml", compute_rule_hash(D).digest).data,
                compute_prompt_hash(prompt_text)))

\* the output directory at the start: empty, or as that earlier run left it
OutputDirs ==
    {[cache_file |-> [kind |-> "missing"], out_files |-> [p \in Paths |-> AbsentFile]],
     [cache_file |-> SavedIndex("P1", RuleA),
      out_files |-> [p \in Paths |-> IF p = "a.yml" THEN ProcessedOutput("P1", RuleA)
                                                     ELSE AbsentFile]]}

OneRunInit ==
    /\ in_files \in RunInputTrees
    /\ \E dir \in OutputDirs : cache_file = dir.cache_file /\ out_files = dir.out_files
    /\ phase = "idle"
    /\ cfg = NoCfg
    /\ task = [p \in Paths |-> NoTask]
    /\ sem = 0
    /\ result = NoResult
    /\ stalled = {}
    /\ data = NoCache
    /\ last_call = [op |-> "none"]

\* the run: any concurrency limit from 1, and any set of documents whose
\* backend calls hang
StartRunOnce ==
    /\ phase = "idle"
    /\ \E prompt \in PromptTexts, f \in BOOLEAN,
          c \in 1..MaxConcurrency, m \in 1..MaxRetries : Launch(prompt, f, c, m)
    /\ stalled' \in SUBSET YamlFiles
    /\ UNCHANGED <<hashVars, last_call, auxVars>>

OneRunNext ==
    \/ StartRunOnce
    \/ \E p \in Paths : Begin(p)
    \/ \E p \in Paths : Generated(p)
    \/ RunRaised
    \/ Finish

-----------------------------------------------------------------------------
(* SpecLive: one run of process_rules under every concurrency limit that   *)
(* load_config lets through, with a backend whose calls all come back.     *)

\* config.py lines 66 and 108: the limit is int(concurrency), taken from
\* the command line, the configuration file or the default without a range
\* check; asyncio.Semaphore(0) is a semaphore no task gets past
ConcurrencyValues == 0..MaxConcurrency

StartRunAny ==
    /\ phase = "idle"
    /\ \E prompt \in PromptTexts, f \in BOOLEAN,
          c \in ConcurrencyValues, m \in 1..MaxRetries : Launch(prompt, f, c, m)
    /\ stalled' = {}
    /\ UNCHANGED <<hashVars, last_call, auxVars>>

LiveNext ==
    \/ StartRunAny
    \/ \E p \in Paths : Begin(p)
    \/ \E p \in Paths : Generated(p)
    \/ RunRaised
    \/ Finish

-----------------------------------------------------------------------------
(* llm_provider.py: OpenAIProvider.generate and ClaudeProvider.generate.   *)
(* SpecProvider follows one generate call from attempt to attempt.         *)

MaxApiRetries == 2      \* the largest api_max_retries tried

\* the registered providers (lines 51, 120)
Providers == {"openai", "claude"}

\* what one backend request can raise.  status 0: the error carries no
\* status code.  APIError stands for an error of the SDK's base class that
\* is none of the classes the handlers name.
Err(cls, status) == [cls |-> cls, status |-> status]
BackendErrors ==
    {Err("RateLimitError", 429), Err("APITimeoutError", 0),
     Err("APIConnectionError", 0), Err("APIStatusError", 500),
     Err("APIStatusError", 503), Err("APIStatusError", 400),
     Err("APIStatusError", 401), Err("APIError", 0)}

\* what a backend request can return as content
BackendContents == {PyNone, PyStr("  "), PyStr("guide")}

\* a faulty handler, against which the retry rule is tested: every error of
\* the backend is retried
Retryable_all(provider, e) == TRUE

\* the except clauses: the errors after which the loop sleeps and goes on
\* (lines 81-107 and 149-175); every other error leaves generate at once
Retryable(provider, e) ==
    \/ e.cls \in {"RateLimitError", "APITimeoutError", "APIConnectionError"}
    \/ e.cls = "APIStatusError" /\ e.status >= 500

\* 2 ** attempt
RECURSIVE Pow2(_)
Pow2(n) == IF n = 0 THEN 1 ELSE 2 * Pow2(n - 1)

\* content = "" if None; return content.strip()  (lines 76-79, 146-147)
Returned(content) == IF content = PyNone THEN "" ELSE Strip(content.s)

ProviderInit == gen = [pc |-> "idle"]

ProviderFrame == UNCHANGED <<cacheVars, hashVars, runVars, vt, chk>>

\* generate is called on a provider built with api_max_retries = n: the
\* first request goes out, or, with no attempt to make, the loop is passed
\* over and `raise last_exception` raises with last_exception = None
GenCall ==
    /\ gen.pc = "idle"
    /\ \E provider \in Providers, n \in 0..MaxApiRetries :
        gen' = [pc |-> IF n = 0 THEN "raised" ELSE "calling",
                provider |-> provider, api_max_retries |-> n,
                attempt |-> IF n = 0 THEN 0 ELSE 1,
                calls |-> IF n = 0 THEN 0 ELSE 1,
                sleeps |-> << >>, errors |-> << >>,
                out |-> IF n = 0 THEN Err("TypeError", 0) ELSE PyNone]
    /\ ProviderFrame

\* the request in flight returns a content: generate returns it
GenReturn ==
    /\ gen.pc = "calling"
    /\ \E content \in BackendContents :
        gen' = [gen EXCEPT !.pc = "returned", !.out = PyStr(Returned(content))]
    /\ ProviderFrame

\* the request in flight raises e: a retryable error is followed by the
\* sleep and, if an attempt is left, by the next request; after the last
\* attempt generate raises the last error; any other error is raised at once
GenError ==
    /\ gen.pc = "calling"
    /\ \E e \in BackendErrors :
        LET seen == [gen EXCEPT !.errors = Append(@, e)] IN
        IF Retryable(gen.provider, e)
        THEN LET slept == [seen EXCEPT !.sleeps = Append(@, Pow2(gen.attempt))] IN
             IF gen.attempt < gen.api_max_retries
             THEN gen' = [slept EXCEPT !.attempt = @ + 1, !.calls = @ + 1]
             ELSE gen' = [slept EXCEPT !.pc = "raised", !.out = e]
        ELSE gen' = [seen EXCEPT !.pc = "raised", !.out = e]
    /\ ProviderFrame

ProviderNext == GenCall \/ GenReturn \/ GenError

-----------------------------------------------------------------------------
(* validator.py: validate_response, and the note step of                   *)
(* _process_single_rule (processor.py 35-59, 261-265).  Texts are strings; *)
(* the str methods the code uses are computed character by character.      *)

\* the characters str.strip() removes
Whitespace == {" ", "\n", "\t"}

Char(s, i) == SubSeq(s, i, i)

\* needle in s
Contains(s, needle) ==
    \E i \in 1..(Len(s) - Len(needle) + 1) : SubSeq(s, i, i + Len(needle) - 1) = needle

\* s.startswith(prefix)
StartsWith(s, prefix) ==
    Len(s) >= Len(prefix) /\ SubSeq(s, 1, Len(prefix)) = prefix

\* s.rstrip() and s.rstrip("\n"): the characters of chars are taken off the end
RECURSIVE LastKept(_, _, _)
LastKept(s, chars, i) ==
    IF i = 0 \/ Char(s, i) \notin chars THEN i ELSE LastKept(s, chars, i - 1)

RStripChars(s, chars) == SubSeq(s, 1, LastKept(s, chars, Len(s)))

RStrip(s) == RStripChars(s, Whitespace)

\* s.strip()
RECURSIVE FirstKept(_, _, _)
FirstKept(s, chars, i) ==
    IF i > Len(s) \/ Char(s, i) \notin chars THEN i ELSE FirstKept(s, chars, i + 1)

StripText(s) ==
    SubSeq(s, FirstKept(s, Whitespace, 1), LastKept(s, Whitespace, Len(s)))

\* the place of the first "\n" from i on, or past the end
RECURSIVE NextNewline(_, _)
NextNewline(s, i) ==
    IF i > Len(s) \/ Char(s, i) = "\n" THEN i ELSE NextNewline(s, i + 1)

\* s.splitlines(), for texts whose only line boundary is "\n"
RECURSIVE SplitFrom(_, _)
SplitFrom(s, i) ==
    IF i > Len(s) THEN << >>
    ELSE LET j == NextNewline(s, i)
         IN <<SubSeq(s, i, j - 1)>> \o SplitFrom(s, j + 1)

SplitLines(s) == SplitFrom(s, 1)

\* "\n".join(lines)
RECURSIVE JoinLines(_)
JoinLines(lines) ==
    IF Len(lines) = 0 THEN ""
    ELSE IF Len(lines) = 1 THEN lines[1]
    ELSE lines[1] \o "\n" \o JoinLines(Tail(lines))

\* validator.py lines 9-18
REQUIRED_HEADERS ==
    <<"### Technical Context", "### Investigation Steps", "### Prioritization",
      "### Blind Spots and Assumptions">>

MINIMUM_LENGTH == 200

\* the errors one rule appends: none or one
ErrorIf(cond, message) == IF cond THEN <<message>> ELSE << >>

\* lines 56-59
LengthErrors(text) ==
    LET n == Len(StripText(text))
    IN ErrorIf(n < MINIMUM_LENGTH,
               "Response too short (" \o ToString(n) \o " chars, minimum "
                  \o ToString(MINIMUM_LENGTH) \o ")")

\* lines 62-64
RECURSIVE HeaderErrorsFrom(_, _)
HeaderErrorsFrom(text, k) ==
    IF k > Len(REQUIRED_HEADERS) THEN << >>
    ELSE ErrorIf(~Contains(text, REQUIRED_HEADERS[k]),
                 "Missing required header: " \o REQUIRED_HEADERS[k])
         \o HeaderErrorsFrom(text, k + 1)

\* a faulty header rule, against which the error texts are tested: the
\* error does not name the header
HeaderErrors_unnamed(text) ==
    ErrorIf(\E k \in 1..Len(REQUIRED_HEADERS) : ~Contains(text, REQUIRED_HEADERS[k]),
            "Missing required header")

\* validate_response, lines 62-64: every required header in turn
HeaderErrors(text) == HeaderErrorsFrom(text, 1)

\* lines 67-68
DisclaimerErrors(text) ==
    ErrorIf(~Contains(text, DISCLAIMER_PREFIX),
            "Missing disclaimer blockquote (> **Disclaimer:**)")

\* re.compile(r"^\s*\*\s", re.MULTILINE).search(text): at the start of some
\* line, whitespace (line ends among it), then an asterisk and a whitespace
StarBullet(text) ==
    \E j \in 1..(Len(text) - 1) :
        /\ Char(text, j) = "*"
        /\ Char(text, j + 1) \in Whitespace
        /\ \E i \in 1..j :
              /\ i = 1 \/ Char(text, i - 1) = "\n"
              /\ \A k \in i..(j - 1) : Char(text, k) \in Whitespace

\* lines 73-75 (the dash of the messages is written as a hyphen)
BulletErrors(text) ==
    ErrorIf(StarBullet(text), "Found * bullet(s) - must use dash-prefixed (-) bullets only")

\* the backtick, which a TLA+ string cannot hold, is written ~ in the texts
Backtick == "~"
CodeFence == Backtick \o Backtick \o Backtick

\* lines 78-79
FenceErrors(text) ==
    ErrorIf(Contains(text, CodeFence),
            "Found triple-backtick code block(s) - code blocks are not allowed")

\* a faulty scan, against which the section rule is tested: a block-quote
\* line does not count as content
RECURSIVE HasContent_no_quote(_, _)
HasContent_no_quote(stripped, j) ==
    IF j > Len(stripped) THEN FALSE
    ELSE IF StartsWith(stripped[j], "### ") THEN FALSE
    ELSE IF stripped[j] # "" /\ ~StartsWith(stripped[j], ">") THEN TRUE
    ELSE HasContent_no_quote(stripped, j + 1)

\* lines 102-113: the scan of the lines after a header, from line j on
RECURSIVE HasContent(_, _)
HasContent(stripped, j) ==
    IF j > Len(stripped) THEN FALSE
    ELSE IF StartsWith(stripped[j], "### ") THEN FALSE
    ELSE IF stripped[j] # "" /\ ~StartsWith(stripped[j], ">") THEN TRUE
    ELSE IF StartsWith(stripped[j], ">") THEN TRUE
    ELSE HasContent(stripped, j + 1)

\* _check_section_content, lines 88-116
RECURSIVE SectionErrorsFrom(_, _)
SectionErrorsFrom(stripped, k) ==
    IF k > Len(REQUIRED_HEADERS) THEN << >>
    ELSE LET header == REQUIRED_HEADERS[k]
             at == {i \in 1..Len(stripped) : stripped[i] = header}
         IN (IF at = {} THEN << >>
             ELSE LET idx == CHOOSE i \in at : \A j \in at : i <= j
                  IN ErrorIf(~HasContent(stripped, idx + 1),
                             "Section '" \o header \o "' has no content after the header"))
            \o SectionErrorsFrom(stripped, k + 1)

SectionErrors(text) ==
    LET lines == SplitLines(StripText(text))
    IN SectionErrorsFrom([i \in 1..Len(lines) |-> StripText(lines[i])], 1)

ValidationResult(errors) == [passed |-> Len(errors) = 0, errors |-> errors]

\* a faulty validator, against which the collection of the errors is
\* tested: it stops at the first rule that is violated
validate_response_first_error(text) ==
    IF text = "" \/ StripText(text) = ""
    THEN [passed |-> FALSE, errors |-> <<"Response is empty">>]
    ELSE LET errors == LengthErrors(text) \o HeaderErrors(text) \o DisclaimerErrors(text)
                       \o BulletErrors(text) \o FenceErrors(text) \o SectionErrors(text)
         IN ValidationResult(IF errors = << >> THEN errors ELSE <<errors[1]>>)

\* validate_response, lines 33-85
validate_response(text) ==
    IF text = "" \/ StripText(text) = ""
    THEN [passed |-> FALSE, errors |-> <<"Response is empty">>]
    ELSE ValidationResult(LengthErrors(text) \o HeaderErrors(text) \o DisclaimerErrors(text)
                          \o BulletErrors(text) \o FenceErrors(text) \o SectionErrors(text))

\* _clean_markdown, processor.py lines 35-59: the loop over the lines
RECURSIVE CleanFrom(_, _, _)
CleanFrom(lines, i, prev_blank) ==
    IF i > Len(lines) THEN << >>
    ELSE LET stripped == RStrip(lines[i])
         IN IF stripped = ""
            THEN (IF prev_blank THEN << >> ELSE <<"">>) \o CleanFrom(lines, i + 1, TRUE)
            ELSE <<stripped>> \o CleanFrom(lines, i + 1, FALSE)

EndsWithNewline(s) == Len(s) > 0 /\ Char(s, Len(s)) = "\n"

_clean_markdown(text) ==
    LET joined == JoinLines(CleanFrom(SplitLines(StripText(text)), 1, TRUE))
    IN IF EndsWithNewline(joined) THEN joined ELSE joined \o "\n"

\* a faulty note step, against which the disclaimer is tested: nothing is
\* appended
Note_never_appends(response) == _clean_markdown(response)

\* processor.py lines 262-265: the text that becomes the note
Note(response) ==
    LET cleaned == _clean_markdown(response)
    IN IF ~Contains(cleaned, DISCLAIMER_TEXT)
       THEN RStripChars(cleaned, {"\n"}) \o "\n\n" \o DISCLAIMER_TEXT \o "\n"
       ELSE cleaned

(* The texts of SpecText.  A text is laid out as an introduction, an       *)
(* optional extra line, the four sections and a closing line; it is the    *)
(* guide the prompt asks for, or differs from it in a few places.          *)

MaxDeviations == 2      \* in how many places a text differs from the guide

SectionBody == "Details."

\* the forms a section takes: as asked for; left out; header with nothing,
\* a blank line, or a block quote after it; the header inside a longer line
\* (a fourth heading marker, trailing words, within a sentence); the header
\* followed by another heading
Forms ==
    {"valid", "absent", "empty", "blank", "quote", "deeper", "trailing", "inline",
     "subhead"}

SectionLines(header, form) ==
    CASE form = "valid"    -> <<header, SectionBody>>
      [] form = "absent"   -> << >>
      [] form = "empty"    -> <<header>>
      [] form = "blank"    -> <<header, "">>
      [] form = "quote"    -> <<header, "> A quoted remark.">>
      [] form = "deeper"   -> <<"#" \o header, SectionBody>>
      [] form = "trailing" -> <<header \o " (details)", SectionBody>>
      [] form = "inline"   -> <<"See " \o header \o " below.", SectionBody>>
      [] form = "subhead"  -> <<header, "### Notes", SectionBody>>

Extras == {"none", "star", "dash", "bold", "fence"}

ExtraLines(extra) ==
    CASE extra = "none"  -> << >>
      [] extra = "star"  -> <<"* An item.">>
      [] extra = "dash"  -> <<"- An item.">>
      [] extra = "bold"  -> <<"**Note** this.">>
      [] extra = "fence" -> <<CodeFence, "x = 1", CodeFence>>

Tails == {"full", "marker", "none"}

TailLines(tail) ==
    CASE tail = "full"   -> <<"", DISCLAIMER_TEXT>>
      [] tail = "marker" -> <<"", DISCLAIMER_PREFIX \o " Reviewed.">>
      [] tail = "none"   -> << >>

RECURSIVE Rep(_, _)
Rep(s, n) == IF n = 0 THEN "" ELSE s \o Rep(s, n - 1)

\* the sections, the extra line and the closing line of a shape
BodyLines(sh) ==
    ExtraLines(sh.extra)
    \o SectionLines(REQUIRED_HEADERS[1], sh.forms[1])
    \o SectionLines(REQUIRED_HEADERS[2], sh.forms[2])
    \o SectionLines(REQUIRED_HEADERS[3], sh.forms[3])
    \o SectionLines(REQUIRED_HEADERS[4], sh.forms[4])
    \o TailLines(sh.tail)

GuideForms == [k \in 1..Len(REQUIRED_HEADERS) |-> "valid"]

\* the length of the introduction with which the guide has exactly
\* MINIMUM_LENGTH characters
ExactIntro ==
    MINIMUM_LENGTH - 1
       - Len(JoinLines(BodyLines([forms |-> GuideForms, extra |-> "none", tail |-> "full"])))

\* the introductions: long enough for a guide without closing line, one
\* that brings the guide to MINIMUM_LENGTH, one character less, or none
Intros == {"long", "exact", "under", "none"}

IntroLines(intro) ==
    CASE intro = "long"  -> <<Rep("x", ExactIntro + Len(DISCLAIMER_TEXT) + Len("\n\n"))>>
      [] intro = "exact" -> <<Rep("x", ExactIntro)>>
      [] intro = "under" -> <<Rep("x", ExactIntro - 1)>>
      [] intro = "none"  -> << >>

ShapeLines(sh) == IntroLines(sh.intro) \o BodyLines(sh)

Deviations(sh) ==
    Cardinality({k \in 1..Len(REQUIRED_HEADERS) : sh.forms[k] # "valid"})
    + (IF sh.intro = "long" THEN 0 ELSE 1)
    + (IF sh.extra = "none" THEN 0 ELSE 1)
    + (IF sh.tail = "full" THEN 0 ELSE 1)

Shapes ==
    {sh \in [forms : [1..Len(REQUIRED_HEADERS) -> Forms], intro : Intros,
             extra : Extras, tail : Tails] : Deviations(sh) <= MaxDeviations}

\* the texts without a visible character
BlankTexts == {"", "  ", " \n\n "}

NoValidation == [passed |-> FALSE, errors |-> <<"not validated">>]

TextInit ==
    \/ \E sh \in Shapes :
          vt = [pc |-> "text", kind |-> "shaped", shape |-> sh, lines |-> ShapeLines(sh),
                text |-> JoinLines(ShapeLines(sh)), res |-> NoValidation, note |-> ""]
    \/ \E s \in BlankTexts :
          vt = [pc |-> "text", kind |-> "blank", shape |-> "", lines |-> << >>,
                text |-> s, res |-> NoValidation, note |-> ""]

TextFrame == UNCHANGED <<cacheVars, hashVars, runVars, gen, chk>>

\* validation = validate_response(raw_response)   (processor.py line 238)
TextValidate ==
    /\ vt.pc = "text"
    /\ vt' = [vt EXCEPT !.pc = "validated", !.res = validate_response(vt.text)]
    /\ TextFrame

\* the response has passed: the note is made of it (lines 241-243, 262-265)
TextNote ==
    /\ vt.pc = "validated"
    /\ vt.res.passed
    /\ vt' = [vt EXCEPT !.pc = "noted", !.note = Note(vt.text)]
    /\ TextFrame

TextNext == TextValidate \/ TextNote

-----------------------------------------------------------------------------
(* processor.py: check_rules, the audit of the notes already written       *)

\* the note the orchestrator writes for a guide that passed
GoodNote == Note(JoinLines(ShapeLines([forms |-> GuideForms, intro |-> "long",
                                       extra |-> "none", tail |-> "full"])))

\* the documents of an audited tree: unreadable or unparsable files, an
\* empty document, a list and a scalar document, and rules without a note,
\* with a falsy, a blank, a numeric, a passing and a failing note
CheckFiles ==
    {AbsentFile, Unparsable, [kind |-> "unreadable"],
     YamlFile(PyNone), YamlFile(PyList), YamlFile(PyStr("see note")),
     YamlFile(RuleA)}
    \cup {YamlFile(MapSet(RuleA, "note", n)) :
            n \in {PyNone, PyStr(""), PyStr(" \n "), PyInt(7),
                   PyStr(GoodNote), PyStr("### Technical Context\n")}}

CheckFilesOf(p) ==
    IF p = "a.yml" THEN CheckFiles
    ELSE {AbsentFile, Unparsable, YamlFile(PyList),
          YamlFile(MapSet(RuleA, "note", PyStr(GoodNote))),
          YamlFile(MapSet(RuleA, "note", PyStr("### Technical Context\n")))}

CheckInit ==
    /\ chk \in {[pc |-> "audit", files |-> f, todo |-> << >>, result |-> NoResult] :
                  f \in {g \in [Paths -> CheckFiles] :
                           \A p \in Paths : g[p] \in CheckFilesOf(p)}}

\* a faulty audit, against which its frame is tested: it constructs the
\* cache of the output directory as process_rules does
CheckFrame_loads_cache ==
    /\ data' = FreshData
    /\ UNCHANGED <<cache_file, last_call, hashVars, runVars, gen, vt>>

\* check_rules holds no cache, no provider and no output directory: its
\* only file operation is the open(rule_file, "r") of line 318
CheckFrame == UNCHANGED <<cacheVars, hashVars, runVars, gen, vt>>

\* sorted(files) of _collect_yaml_files
SortedPaths == <<"a.yml", "b.yml">>

\* ValidationResult.__str__
RECURSIVE JoinErrors(_)
JoinErrors(errors) ==
    IF Len(errors) = 1 THEN errors[1]
    ELSE errors[1] \o "; " \o JoinErrors(Tail(errors))

ValidationText(v) ==
    IF v.passed THEN "Validation passed"
    ELSE "Validation failed: " \o JoinErrors(v.errors)

\* lines 297-303: the files are collected and counted; without files the
\* result is returned at once
CheckStart ==
    /\ chk.pc = "audit"
    /\ LET yaml_files == SelectSeq(SortedPaths, LAMBDA p : chk.files[p].kind # "absent")
       IN chk' = [chk EXCEPT !.pc = IF Len(yaml_files) = 0 THEN "returned" ELSE "looping",
                             !.todo = yaml_files,
                             !.result = [@ EXCEPT !.total = Len(yaml_files)]]
    /\ CheckFrame

\* lines 310-344: one turn of the loop; line 346 after the last turn
CheckOne ==
    /\ chk.pc = "looping"
    /\ LET p         == Head(chk.todo)
           rd        == ReadYaml(chk.files[p])
           rule_data == rd.value
           after     == IF Len(chk.todo) = 1 THEN "returned" ELSE "looping"
           step(res) == [chk EXCEPT !.pc = after, !.todo = Tail(@), !.result = res]
           skipped   == [chk.result EXCEPT !.skipped = @ + 1]
       IN CASE rd.raised # "" ->
                 chk' = step(Failure(chk.result, p \o ": YAML parse error"))
            [] rd.raised = "" /\ rule_data = PyNone ->
                 chk' = step(skipped)
            [] rd.raised = "" /\ rule_data # PyNone /\ rule_data.t # "map" ->
                 \* rule_data.get: a list or a scalar has no such method
                 chk' = [chk EXCEPT !.pc = "raised"]
            [] OTHER ->
                 LET note == MapGet(rule_data, "note", PyStr("")) IN
                 IF ~YTruthy(note) \/ StripText(Str(note)) = ""
                 THEN chk' = step(skipped)
                 ELSE LET validation == validate_response(Str(note)) IN
                      IF validation.passed
                      THEN chk' = step([chk.result EXCEPT !.processed = @ + 1])
                      ELSE chk' = step(Failure(chk.result,
                                               p \o ": " \o ValidationText(validation)))
    /\ CheckFrame

CheckNext == CheckStart \/ CheckOne

-----------------------------------------------------------------------------
(* The specifications                                                      *)

CacheIdle ==
    /\ cache_file = [kind |-> "missing"]
    /\ data = NoCache
    /\ last_call = [op |-> "none"]

HashIdle ==
    /\ hdoc = YMap(<< >>)
    /\ hdoc2 = YMap(<< >>)
    /\ hedit = "none"
    /\ hres = NoRes

\* no generate call, no text and no audit in hand
AuxIdle ==
    /\ gen = [pc |-> "idle"]
    /\ vt = [pc |-> "idle"]
    /\ chk = [pc |-> "idle"]

RunIdle ==
    /\ in_files = [p \in Paths |-> AbsentFile]
    /\ out_files = [p \in Paths |-> AbsentFile]
    /\ phase = "idle"
    /\ cfg = NoCfg
    /\ task = [p \in Paths |-> NoTask]
    /\ sem = 0
    /\ result = NoResult
    /\ stalled = {}

InitHash == HashInit /\ CacheIdle /\ RunIdle /\ AuxIdle

SpecHash == InitHash /\ [][HashNext]_vars

InitCache == CacheInit /\ HashIdle /\ RunIdle /\ AuxIdle

SpecCache == InitCache /\ [][CacheNext]_vars

Init == RunInit /\ CacheIdle /\ HashIdle /\ AuxIdle

Next == RunNext

Spec == Init /\ [][Next]_vars

InitRun == OneRunInit /\ HashIdle /\ AuxIdle

SpecRun == InitRun /\ [][OneRunNext]_vars



InitProvider ==
    /\ ProviderInit /\ vt = [pc |-> "idle"] /\ chk = [pc |-> "idle"]
    /\ CacheIdle /\ HashIdle /\ RunIdle

SpecProvider == InitProvider /\ [][ProviderNext]_vars

InitText ==
    /\ TextInit /\ gen = [pc |-> "idle"] /\ chk = [pc |-> "idle"]
    /\ CacheIdle /\ HashIdle /\ RunIdle

SpecText == InitText /\ [][TextNext]_vars

InitCheck ==
    /\ CheckInit /\ gen = [pc |-> "idle"] /\ vt = [pc |-> "idle"]
    /\ CacheIdle /\ HashIdle /\ RunIdle

SpecCheck == InitCheck /\ [][CheckNext]_vars

InitLive == RunInit /\ CacheIdle /\ HashIdle /\ AuxIdle

\* the event loop runs every task that can run, and every backend call
\* comes back: a step that stays possible is taken
SpecLive == InitLive /\ [][LiveNext]_vars /\ WF_vars(LiveNext)

-----------------------------------------------------------------------------
(* Claims about compute_rule_hash (SpecHash)                               *)

\* C9: for every document D and every D' that is D with only its note field
\* added, removed or changed, compute_rule_hash(D) = compute_rule_hash(D'),
\* and the calls leave D and D' as they were.
C9_NoteExcludedFromHash ==
    (hres.done /\ hedit = "note") =>
        /\ ~hres.raised
        /\ hres.h = hres.h2
        /\ hdoc = hres.before
        /\ hdoc2 = hres.before2

\* a note was added to a document that holds other fields, and both were hashed
C9_Witness ==
    /\ hres.done /\ hedit = "note"
    /\ ~MapHas(hres.before, "note") /\ MapHas(hres.before2, "note")
    /\ Len(hres.before.pairs) = 2
    /\ hres.before2.pairs[1].k = "note"

\* C10: for every document D, changing, adding or removing one field other
\* than note yields a different compute_rule_hash value.
C10_OtherFieldsChangeHash ==
    (hres.done /\ hedit = "field") => (~hres.raised /\ hres.h # hres.h2)

\* the value of one field of a document that also holds a note was changed
C10_Witness ==
    /\ hres.done /\ hedit = "field"
    /\ MapHas(hres.before, "note")
    /\ Len(hres.before.pairs) = Len(hres.before2.pairs)
    /\ MapGet(hres.before, "level", PyNone) # MapGet(hres.before2, "level", PyNone)
    /\ MapHas(hres.before, "level")

\* C11: two documents with the same keys and values whose keys appear in a
\* different order have equal compute_rule_hash values.
C11_KeyOrderIndependent ==
    (hres.done /\ hedit = "order") => (~hres.raised /\ hres.h = hres.h2)

-----------------------------------------------------------------------------
(* Claims about the Cache object (SpecCache)                               *)

\* (a) the stored global prompt hash equals the given prompt hash
StoredPromptEquals(d, prompt_hash) ==
    /\ "prompt_hash" \in DOMAIN d.items
    /\ d.items["prompt_hash"] = PyStr(prompt_hash)

\* (b) an entry exists for the path whose stored content hash is the given one
EntryMatches(d, path, content_hash) ==
    /\ "rules" \in DOMAIN d.items
    /\ d.items["rules"].t = "dict"
    /\ path \in DOMAIN d.items["rules"].items
    /\ LET e == d.items["rules"].items[path] IN
        /\ e.t = "dict"
        /\ "content_hash" \in DOMAIN e.items
        /\ e.items["content_hash"] = PyStr(content_hash)

\* (c) the output file exists and holds a note that is not blank
HasNonBlankNote(file) ==
    /\ file.kind = "yaml"
    /\ file.value.t = "map"
    /\ \E i \in 1..Len(file.value.pairs) :
          /\ file.value.pairs[i].k = "note"
          /\ file.value.pairs[i].v.t = "str"
          /\ file.value.pairs[i].v.s \notin WhitespaceOnly

\* C1: should_skip returns true if and only if (a) the stored prompt hash is
\* the given one, (b) the path has an entry with the given content hash and
\* (c) the output file exists with a non-blank note.
C1_ShouldSkipIffAllThree ==
    last_call.op = "should_skip" =>
        (last_call.result = "True" <=>
            /\ StoredPromptEquals(data, last_call.prompt_hash)
            /\ EntryMatches(data, last_call.relative_path, last_call.content_hash)
            /\ HasNonBlankNote(last_call.output_file))

\* should_skip has answered true, on a cache that holds entries for both paths
C1_Witness ==
    /\ last_call.op = "should_skip"
    /\ last_call.result = "True"
    /\ DOMAIN data.items["rules"].items = Paths

\* an index as the program writes it
WellFormedIndex(file) ==
    /\ file.kind = "json"
    /\ file.value.t = "dict"
    /\ DictGet(file.value, "version", Absent) = PyInt(CACHE_VERSION)
    /\ DictGet(file.value, "prompt_hash", Absent).t = "str"
    /\ DictGet(file.value, "rules", Absent).t = "dict"
    /\ \A path \in DOMAIN DictGet(file.value, "rules", Absent).items :
          LET e == DictGet(file.value, "rules", Absent).items[path] IN
          e.t = "dict" /\ DictGet(e, "content_hash", Absent).t = "str"

\* C4: for every cache file that is missing, unreadable, not parseable, of
\* another version or otherwise no well-formed index, constructing the Cache
\* does not raise, the loaded rules are empty, and should_skip returns false
\* without raising for every argument.
C4_CorruptCacheIsEmptyCache ==
    (last_call.op = "Cache" /\ ~WellFormedIndex(cache_file)) =>
        /\ last_call.raised = ""
        /\ DictGet(data, "rules", Absent) = EmptyDict
        /\ \A path \in Paths, ch \in ContentHashes, ph \in PromptHashes, of \in OutputFiles :
              should_skip(data, path, ch, ph, of) = "False"

\* the inspection of the output file hits an I/O or parse error, or the file
\* does not parse to a mapping
InspectionFails(file) ==
    \/ file.kind \in {"unreadable", "unparsable"}
    \/ file.kind = "yaml" /\ file.value.t # "map"

\* C5: when the prompt and content hashes match but inspecting the output file
\* hits an error (or the file is no mapping), should_skip returns false and
\* does not raise.
C5_ShouldSkipFailsClosed ==
    ( /\ last_call.op = "should_skip"
      /\ StoredPromptEquals(data, last_call.prompt_hash)
      /\ EntryMatches(data, last_call.relative_path, last_call.content_hash)
      /\ InspectionFails(last_call.output_file) )
    => last_call.result = "False"

\* should_skip was asked about an output file that does not parse, hashes matching
C5_Witness ==
    /\ last_call.op = "should_skip"
    /\ StoredPromptEquals(data, last_call.prompt_hash)
    /\ EntryMatches(data, last_call.relative_path, last_call.content_hash)
    /\ last_call.output_file.kind = "unparsable"
    /\ last_call.result = "False"

\* what the round trip is to preserve: the prompt hash and, per path, the
\* content hash
StoredPrompt(d) == DictGet(d, "prompt_hash", Absent)
StoredHashes(d) ==
    LET rules == DictGet(d, "rules", EmptyDict) IN
    IF rules.t # "dict" THEN rules
    ELSE PyDict([path \in DOMAIN rules.items |->
                   IF rules.items[path].t = "dict"
                   THEN DictGet(rules.items[path], "content_hash", Absent)
                   ELSE rules.items[path]])

SameIndex(d1, d2) ==
    /\ d1 # NoCache /\ d2 # NoCache
    /\ StoredPrompt(d1) = StoredPrompt(d2)
    /\ StoredHashes(d1) = StoredHashes(d2)

C7_UpdateFrame ==
    [][ /\ last_call'.op = "update_rule" =>
              /\ last_call'.raised = ""
              /\ EntryMatches(data', last_call'.relative_path, last_call'.content_hash)
              /\ StoredPrompt(data') = StoredPrompt(data)
              /\ DictGet(data', "version", Absent) = DictGet(data, "version", Absent)
              /\ \A path \in Paths \ {last_call'.relative_path} :
                    DictGet(DictGet(data', "rules", EmptyDict), path, Absent)
                      = DictGet(DictGet(data, "rules", EmptyDict), path, Absent)
        /\ last_call'.op = "set_prompt_hash" =>
              /\ StoredPrompt(data') = PyStr(last_call'.prompt_hash)
              /\ DictGet(data', "rules", Absent) = DictGet(data, "rules", Absent)
              /\ DictGet(data', "version", Absent) = DictGet(data, "version", Absent)
      ]_vars

-----------------------------------------------------------------------------
(* Claims about runs of process_rules (Spec)                               *)

\* a document the loop hands to the hashing, the skip check and the backend
Parseable(file) == file.kind = "yaml" /\ file.value # PyNone

\* the output file of p holds the document as it is now, with the note the
\* backend writes for it under the prompt of this run
CurrentOutput(p) ==
    YamlFile(MapSet(in_files[p].value, "note",
                    PyStr(FinalNote(cfg.prompt_text, RawText(in_files[p])))))

\* C2: a document is skipped in a run only if the note in its output file was
\* generated from the document's current content under the current prompt.
C2_SkipOnlyCurrentOutput ==
    \A p \in Paths : task[p].outcome = "skipped" => out_files[p] = CurrentOutput(p)

\* C3: in a run whose prompt hash differs from the prompt hash of the loaded
\* cache no document is skipped, and every parseable document that was taken
\* up has gone to generation.
C3_PromptChangeReprocessesAll ==
    (phase = "running" /\ StoredPrompt(data) # PyStr(PromptHash)) =>
        \A p \in Paths :
            /\ task[p].outcome # "skipped"
            /\ (task[p].pc \notin {"none", "waiting"} /\ Parseable(in_files[p]))
                  => task[p].calls >= 1

\* under a changed prompt a document went to generation whose entry holds its
\* content hash and whose output file holds a note
C3_Witness ==
    /\ phase = "running" /\ ~cfg.force
    /\ StoredPrompt(data) = PyStr(compute_prompt_hash("P1"))
    /\ cfg.prompt_text = "P2"
    /\ Parseable(in_files["a.yml"])
    /\ EntryMatches(data, "a.yml", compute_rule_hash(in_files["a.yml"].value).digest)
    /\ HasNonBlankNote(out_files["a.yml"])
    /\ task["a.yml"].pc = "generating" /\ task["a.yml"].calls = 1

\* the paths of the persisted index
IndexPaths(file) ==
    IF WellFormedIndex(file) THEN DOMAIN DictGet(file.value, "rules", Absent).items ELSE {}

\* C8: with a well-formed cache file, no step of a run takes a path out of
\* the persisted index.
C8_EntriesNeverRemoved ==
    [][WellFormedIndex(cache_file) => IndexPaths(cache_file) \subseteq IndexPaths(cache_file')]_vars

\* C29: a run that discovers no document ends in the fatal exit without
\* having constructed or loaded the cache, and a run is fatal only then.
C29_FatalBeforeCacheInteraction ==
    /\ phase = "fatal" => (YamlFiles = {} /\ data = NoCache)
    /\ (YamlFiles = {} /\ phase # "idle") => phase = "fatal"

\* the write of p's output failed in the run that has just ended: the write
\* error was recorded, or mkdir raised and ended the run
WriteFailed(p) ==
    \/ /\ phase = "returned"
       /\ \E i \in 1..Len(result.failures) : result.failures[i] = p \o ": Write error"
    \/ /\ phase = "raised"
       /\ task[p].pc = "raised" /\ task[p].outcome = "OSError"

\* the next run, started on the files as this run leaves them, with the same
\* prompt and without force, skips p: it loads the cache file, hashes the
\* document and asks should_skip
NextRunSkips(p) ==
    LET r == _load(cache_file)
        h == compute_rule_hash(in_files[p].value)
    IN /\ r.raised = "" /\ h.raised = ""
       /\ should_skip(r.data, p, h.digest, PromptHash, out_files[p]) = "True"

\* C16: a document whose output could not be written in a run is not skipped
\* by the next run over the same inputs and prompt without force.
C16_WriteFailureIsRetried ==
    \A p \in Paths : WriteFailed(p) => ~NextRunSkips(p)

-----------------------------------------------------------------------------
(* Claims about one run of process_rules (SpecRun)                         *)

\* the discovered documents whose task ended with the given outcome
Outcomes(o) == {p \in YamlFiles : task[p].pc = "done" /\ task[p].outcome = o}

\* C12: when process_rules returns, every discovered document has counted in
\* exactly one of processed, skipped and failed, so total = processed +
\* skipped + failed, and failed is the length of the failures list.
C12_CountersAddUp ==
    phase = "returned" =>
        /\ \A p \in YamlFiles :
              task[p].pc = "done" /\ task[p].outcome \in {"processed", "skipped", "failed"}
        /\ result.total = Cardinality(YamlFiles)
        /\ result.processed = Cardinality(Outcomes("processed"))
        /\ result.skipped = Cardinality(Outcomes("skipped"))
        /\ result.failed = Cardinality(Outcomes("failed"))
        /\ result.total = result.processed + result.skipped + result.failed
        /\ result.failed = Len(result.failures)

\* a run has returned with one document skipped and the other failed
C12_Witness ==
    /\ phase = "returned"
    /\ task["a.yml"].outcome = "skipped"
    /\ task["b.yml"].outcome = "failed"
    /\ result.total = 2 /\ result.skipped = 1 /\ result.failed = 1
    /\ Len(result.failures) = 1

\* every task of the run has finished
AllTasksDone == \A p \in YamlFiles : task[p].pc = "done"

\* C13: a run that has discovered documents sets the prompt hash and saves
\* the cache exactly once: it ends by doing so, after every task has
\* finished, and does neither before.
C13_PersistedOnceAfterAllTasks ==
    [][ /\ (phase = "running" /\ phase' # "running") =>
              /\ AllTasksDone
              /\ phase' = "returned"
              /\ data' = set_prompt_hash(data, PromptHash)
        /\ ( /\ phase = "running"
             /\ \/ cache_file' # cache_file
                \/ StoredPrompt(data') # StoredPrompt(data) )
           => (AllTasksDone /\ phase' = "returned")
      ]_vars

\* an input error: the file is malformed, empty, no mapping, or cannot be
\* read again as raw text
InputError(file) ==
    \/ file.kind \in {"unparsable", "yaml_once"}
    \/ file.kind = "yaml" /\ (file.value = PyNone \/ file.value.t # "map")

\* the failure descriptions of a document
FailureTexts(p) ==
    {p \o ": YAML parse error", p \o ": Empty YAML file", p \o ": API error",
     p \o ": Write error"}
    \cup {p \o ": Validation failed " \o ToString(n) \o "x" : n \in 0..(MaxRetries + 1)}

FailuresOf(p) == {i \in 1..Len(result.failures) : result.failures[i] \in FailureTexts(p)}

\* C14: a document with an input error gets no generation call, its task
\* does not raise, and once the task has run it has failed with one failure
\* record.
C14_InputErrorFailsOwnDocument ==
    \A p \in Paths :
        (InputError(in_files[p]) /\ task[p].pc \notin {"none", "waiting", "cancelled"}) =>
            /\ task[p].calls = 0
            /\ task[p].pc = "done" /\ task[p].outcome = "failed"
            /\ phase # "raised" => Cardinality(FailuresOf(p)) = 1

\* the step in which the write of p's output fails: mkdir raises, or the
\* write error is recorded
WriteFails(p) ==
    /\ task[p].pc = "generating"
    /\ \/ task'[p].pc = "raised" /\ task'[p].outcome = "OSError"
       \/ /\ Len(result'.failures) = Len(result.failures) + 1
          /\ result'.failures[Len(result'.failures)] = p \o ": Write error"

\* C15: a failure to write a document's output records one failure for the
\* document, leaves the cache as it was, does not count the document as
\* processed and does not make its task raise.
C15_WriteFailureIsRecorded ==
    [][ \A p \in Paths : WriteFails(p) =>
            /\ result'.failed = result.failed + 1
            /\ result'.failures = Append(result.failures, p \o ": Write error")
            /\ result'.processed = result.processed
            /\ data' = data
            /\ task'[p].pc = "done" /\ task'[p].outcome = "failed"
      ]_vars

\* the documents with a generate call in flight
InFlight == {p \in Paths : task[p].pc = "generating"}

\* C17: the documents with a generate call in flight are never more than
\* the concurrency limit, and the semaphore counts the free slots.
C17_AtMostConcurrencyInFlight ==
    /\ Cardinality(InFlight) <= cfg.concurrency
    /\ phase = "running" => (sem >= 0 /\ sem + Cardinality(InFlight) = cfg.concurrency)

\* at limit 1 one document is in flight and the other waits for the slot
C17_Witness ==
    /\ phase = "running" /\ cfg.concurrency = 1
    /\ task["a.yml"].pc = "generating"
    /\ task["b.yml"].pc = "waiting"
    /\ sem = 0

\* the document p is blocked: it waits, no slot is free and every slot is
\* held by a document whose backend call never returns
Blocked(p) ==
    /\ phase = "running" /\ task[p].pc = "waiting"
    /\ sem <= 0
    /\ InFlight \subseteq stalled

C19_NoCallAfterFatalError ==
    [][ \A p \in Paths : task'[p].calls > task[p].calls => task'[p].errs # "fatal" ]_vars

\* C20 (first half): a document recorded as 'Validation failed N x' had N
\* generate calls, each of which returned a text.
C20_ValidationFailedCountsAttempts ==
    [][ \A p \in Paths :
          ( /\ task[p].pc = "generating"
            /\ Len(result'.failures) = Len(result.failures) + 1
            /\ result'.failures[Len(result'.failures)]
                  = p \o ": Validation failed " \o ToString(cfg.max_retries) \o "x" )
          => (task[p].calls = cfg.max_retries /\ task[p].errs = "none")
      ]_vars

-----------------------------------------------------------------------------
(* Claims about provider.generate (SpecProvider)                           *)

\* the errors the specification calls transient: rate limiting, timeout,
\* connection failure and server-side (5xx) errors
Transient(e) ==
    \/ e.cls \in {"RateLimitError", "APITimeoutError", "APIConnectionError"}
    \/ e.status >= 500

\* the request in flight raises in this step
ErrorStep == gen.pc = "calling" /\ Len(gen'.errors) = Len(gen.errors) + 1

\* C21: in either provider a non-transient error of the backend leaves
\* generate at once, with no further request and no sleep (so after exactly
\* one request when it is the first answer), while a transient error is
\* followed by another request as long as an attempt is left.
C21_OnlyTransientErrorsRetried ==
    [][ ErrorStep =>
          LET e == gen'.errors[Len(gen'.errors)] IN
          /\ ~Transient(e) =>
                /\ gen'.pc = "raised" /\ gen'.out = e
                /\ gen'.calls = gen.calls /\ gen'.sleeps = gen.sleeps
                /\ Len(gen.errors) = 0 => gen'.calls = 1
          /\ (Transient(e) /\ gen.attempt < gen.api_max_retries) =>
                /\ gen'.pc = "calling" /\ gen'.calls = gen.calls + 1
                /\ Len(gen'.sleeps) = Len(gen.sleeps) + 1
      ]_vars

\* the Claude provider was rate limited, tried again, and raised the
\* authentication error of the second request without a second sleep
C21_Witness ==
    /\ gen.pc = "raised" /\ gen.provider = "claude"
    /\ gen.errors = <<Err("RateLimitError", 429), Err("APIStatusError", 401)>>
    /\ gen.calls = 2 /\ gen.sleeps = <<2>>
    /\ gen.out = Err("APIStatusError", 401)

-----------------------------------------------------------------------------
(* Claims about the validation-retry loop (SpecRun)                        *)

\* C22: the loop never turns down an answer of the backend that keeps every
\* other rule of the validator because the disclaimer marker is absent: no
\* document is sent to another attempt on these grounds alone.
C22_NoRetryForDisclaimerAlone ==
    \A p \in Paths : task[p].rejected # "disclaimer"

-----------------------------------------------------------------------------
(* Claims about validate_response and the note step (SpecText).  What a    *)
(* text holds is read off the lines it was laid out with.                  *)

\* validate_response has been applied to a laid-out text
ShapedAndValidated == vt.pc \in {"validated", "noted"} /\ vt.kind = "shaped"

HeaderCount == Len(REQUIRED_HEADERS)

HasError(message) == \E i \in 1..Len(vt.res.errors) : vt.res.errors[i] = message

\* the characters of the text between its first and its last visible one
RECURSIVE DropTrailingBlank(_)
DropTrailingBlank(ls) ==
    IF ls # << >> /\ ls[Len(ls)] = "" THEN DropTrailingBlank(SubSeq(ls, 1, Len(ls) - 1))
    ELSE ls

RECURSIVE CharsOf(_)
CharsOf(ls) ==
    IF ls = << >> THEN 0
    ELSE IF Len(ls) = 1 THEN Len(ls[1])
    ELSE Len(ls[1]) + 1 + CharsOf(Tail(ls))

VisibleLength == CharsOf(DropTrailingBlank(vt.lines))

\* the lines in which the k-th required header occurs
Mentioning(k) ==
    LET header == REQUIRED_HEADERS[k]
    IN {header, "#" \o header, header \o " (details)", "See " \o header \o " below."}

HeaderMentioned(k) == \E i \in 1..Len(vt.lines) : vt.lines[i] \in Mentioning(k)

\* the lines that consist exactly of the k-th required header
HeaderLinesOf(k) == {i \in 1..Len(vt.lines) : vt.lines[i] = REQUIRED_HEADERS[k]}

\* the heading lines of the texts: they close a section
Headings ==
    {REQUIRED_HEADERS[k] : k \in 1..HeaderCount}
    \cup {REQUIRED_HEADERS[k] \o " (details)" : k \in 1..HeaderCount}
    \cup {"### Notes"}

\* a non-blank line stands between line i and the next heading or the end
ContentAfter(i) ==
    \E j \in (i + 1)..Len(vt.lines) :
        /\ vt.lines[j] # "" /\ vt.lines[j] \notin Headings
        /\ \A m \in (i + 1)..(j - 1) : vt.lines[m] \notin Headings

\* the k-th required header stands on a line of its own and its section is empty
EmptySection(k) == \E i \in HeaderLinesOf(k) : ~ContentAfter(i)

HasMarker ==
    \E i \in 1..Len(vt.lines) :
        vt.lines[i] \in {DISCLAIMER_TEXT, DISCLAIMER_PREFIX \o " Reviewed."}

HasStarBullet == \E i \in 1..Len(vt.lines) : vt.lines[i] = "* An item."

HasFence == \E i \in 1..Len(vt.lines) : vt.lines[i] = CodeFence

\* C23: a text with the four headers on lines of their own, at least
\* MINIMUM_LENGTH characters, no asterisk bullet, no code fence and no empty
\* section passes validate_response when the disclaimer marker is missing.
C23_PassesWithoutDisclaimer ==
    ( /\ ShapedAndValidated
      /\ \A k \in 1..HeaderCount : HeaderLinesOf(k) # {} /\ ~EmptySection(k)
      /\ VisibleLength >= MINIMUM_LENGTH
      /\ ~HasStarBullet /\ ~HasFence
      /\ ~HasMarker )
    => vt.res.passed

\* C25: a text in which one of the required headers does not occur fails
\* validation with an error that names that header.
C25_MissingHeaderIsNamed ==
    ShapedAndValidated =>
        \A k \in 1..HeaderCount :
            ~HeaderMentioned(k) =>
                /\ ~vt.res.passed
                /\ HasError("Missing required header: " \o REQUIRED_HEADERS[k])

\* the guide without its third header is turned down for that reason alone
C25_Witness ==
    /\ ShapedAndValidated
    /\ vt.shape = [forms |-> [GuideForms EXCEPT ![3] = "absent"], intro |-> "long",
                   extra |-> "none", tail |-> "full"]
    /\ vt.res = [passed |-> FALSE,
                 errors |-> <<"Missing required header: ### Prioritization">>]

\* C26: a text in which a required header occurs only inside a longer line
\* does not pass validation.
C26_HeaderMustBeALine ==
    ShapedAndValidated =>
        \A k \in 1..HeaderCount :
            (HeaderMentioned(k) /\ HeaderLinesOf(k) = {}) => ~vt.res.passed

\* C27: for a required header on a line of its own, validation reports that
\* its section has no content exactly when no non-blank line stands between
\* the header and the next heading or the end; a block-quote line is content.
C27_EmptySectionIsReported ==
    ShapedAndValidated =>
        \A k \in 1..HeaderCount :
            /\ HasError("Section '" \o REQUIRED_HEADERS[k] \o "' has no content after the header")
                  <=> EmptySection(k)
            /\ EmptySection(k) => ~vt.res.passed
            /\ vt.shape.forms[k] = "quote" => ~EmptySection(k)

\* the second section of the guide is empty, and the third holds a block
\* quote only: the second is reported and nothing else
C27_Witness ==
    /\ ShapedAndValidated
    /\ vt.shape = [forms |-> [GuideForms EXCEPT ![2] = "empty", ![3] = "quote"],
                   intro |-> "long", extra |-> "none", tail |-> "full"]
    /\ vt.res.errors
          = <<"Section '### Investigation Steps' has no content after the header">>

\* how many rules the text breaks
Count(cond) == IF cond THEN 1 ELSE 0
BrokenRules ==
    Count(VisibleLength < MINIMUM_LENGTH)
    + Cardinality({k \in 1..HeaderCount : ~HeaderMentioned(k)})
    + Count(~HasMarker) + Count(HasStarBullet) + Count(HasFence)
    + Cardinality({k \in 1..HeaderCount : EmptySection(k)})

NonBlank(ls) == {i \in 1..Len(ls) : ls[i] # ""}

\* the lines of the note that are the fixed disclaimer line
DisclaimerLinesOf(note) ==
    LET ls == SplitLines(note) IN {i \in 1..Len(ls) : ls[i] = DISCLAIMER_TEXT}

\* C24: the note made of an accepted response holds the fixed disclaimer
\* line: it is the response's own when the response holds that line, and is
\* appended as the last line, after a blank line, exactly when it does not.
C24_NoteHoldsDisclaimer ==
    (vt.pc = "noted" /\ vt.kind = "shaped") =>
        LET ls == SplitLines(vt.note)
            appended == Cardinality(NonBlank(ls)) = Cardinality(NonBlank(vt.lines)) + 1
        IN /\ Cardinality(DisclaimerLinesOf(vt.note)) = 1
           /\ Cardinality(NonBlank(ls)) \in
                 {Cardinality(NonBlank(vt.lines)), Cardinality(NonBlank(vt.lines)) + 1}
           /\ appended <=> vt.shape.tail # "full"
           /\ appended =>
                 /\ ls[Len(ls)] = DISCLAIMER_TEXT /\ ls[Len(ls) - 1] = ""
                 /\ EndsWithNewline(vt.note)

\* an accepted response that holds the marker with other words after it: the
\* fixed line is appended to it
C24_Witness ==
    /\ vt.pc = "noted" /\ vt.kind = "shaped"
    /\ vt.shape = [forms |-> GuideForms, intro |-> "long", extra |-> "none",
                   tail |-> "marker"]
    /\ Cardinality(DisclaimerLinesOf(vt.note)) = 1
    /\ Len(SplitLines(vt.note)) = Len(vt.lines) + 2


-----------------------------------------------------------------------------
(* Claims about check_rules (SpecCheck)                                    *)

\* the documents the audit discovers
Audited == {p \in Paths : chk.files[p].kind # "absent"}

\* the note of a parsed document; a document that is not a mapping, and a
\* mapping without the key, have none
StoredNote(file) ==
    IF file.value.t = "map" THEN MapGet(file.value, "note", PyNone) ELSE PyNone

\* the bucket the audit is to put a document in
Bucket(file) ==
    CASE file.kind \in {"unreadable", "unparsable"} -> "failed"
      [] file.kind = "yaml" /\ (StoredNote(file).t # "str"
                                \/ StripText(StoredNote(file).s) = "") ->
           IF StoredNote(file).t \in {"null", "str"} THEN "skipped" ELSE "other"
      [] OTHER ->
           IF validate_response(StoredNote(file).s).passed THEN "processed" ELSE "failed"

InBucket(b) == Cardinality({p \in Audited : Bucket(chk.files[p]) = b})

\* C30: check_rules completes for every tree of documents, and its result
\* counts every discovered document in exactly one bucket: failed when the
\* file is unreadable, skipped when the note is missing or blank, processed
\* when the stored note passes validate_response and failed when it does not;
\* total = processed + skipped + failed.
C30_AuditClassifiesEveryDocument ==
    /\ chk.pc # "raised"
    /\ chk.pc = "returned" =>
         /\ chk.result.total = Cardinality(Audited)
         /\ chk.result.total
              = chk.result.processed + chk.result.skipped + chk.result.failed
         /\ (\A p \in Audited : Bucket(chk.files[p]) # "other") =>
              /\ chk.result.processed = InBucket("processed")
              /\ chk.result.skipped = InBucket("skipped")
              /\ chk.result.failed = InBucket("failed")
              /\ Len(chk.result.failures) = chk.result.failed


\* C31: the audit is read-only.  No step of check_rules makes a generation
\* call, loads, changes or saves the cache, or writes a document: the cache
\* file, the cache object, the output files, the generation client and the
\* audited files themselves stay as they are.
C31_AuditIsReadOnly ==
    [][ /\ UNCHANGED <<cache_file, data, last_call, out_files, in_files, gen, task>>
        /\ chk'.files = chk.files ]_vars

\* C31: an audit that looked at two documents has returned
C31_Witness ==
    /\ chk.pc = "returned"
    /\ chk.result.total = 2
    /\ data = NoCache /\ last_call.op = "none" /\ gen.pc = "idle"
    /\ \A p \in Paths : out_files[p].kind = "absent"


-----------------------------------------------------------------------------
(* Claims about the steps of one document's task (Spec, SpecRun)           *)

\* the document of p parses to a rule, force is unset and should_skip
\* returns True for it
SkipDue(p) ==
    /\ in_files[p].kind \notin {"absent", "unparsable"}
    /\ in_files[p].value # PyNone
    /\ compute_rule_hash(in_files[p].value).raised = ""
    /\ ~cfg.force
    /\ should_skip(data, p, compute_rule_hash(in_files[p].value).digest,
                   PromptHash, out_files[p]) = "True"

\* C32: the step in which a task looks at its document counts the document
\* as skipped exactly when force is unset and should_skip returns True; that
\* step makes no generation call, writes no output file and leaves the cache
\* as it is; the skipped counter grows in no other step; with force set
\* nothing is skipped.
C32_SkippedIffShouldSkip ==
    [][ /\ \A p \in Paths :
             (task[p].pc = "waiting" /\ task'[p].pc \notin {"waiting", "cancelled"}) =>
                 /\ (task'[p].outcome = "skipped") <=> SkipDue(p)
                 /\ (result'.skipped = result.skipped + 1) <=> SkipDue(p)
                 /\ task'[p].outcome = "skipped" =>
                       /\ ~cfg.force
                       /\ task'[p].pc = "done" /\ task'[p].calls = 0
                       /\ UNCHANGED <<out_files, data, cache_file>>
        /\ result'.skipped > result.skipped =>
             \E p \in Paths : task[p].pc = "waiting" /\ task'[p].outcome = "skipped"
        /\ \A p \in Paths :
             (task[p].outcome = "skipped" /\ phase' = phase) =>
                 (task'[p] = task[p] /\ out_files'[p] = out_files[p])
      ]_vars

\* C32: a document has been skipped, its output file being that of an
\* earlier run
C32_Witness ==
    \E p \in Paths :
        /\ task[p].pc = "done" /\ task[p].outcome = "skipped" /\ task[p].calls = 0
        /\ result.skipped > 0
        /\ out_files[p].kind = "yaml"


\* the failure texts with which the validation-retry loop of p ends when no
\* attempt has passed
LoopFailures(p) ==
    {p \o ": API error"}
    \cup {p \o ": Validation failed " \o ToString(n) \o "x" : n \in 0..(MaxRetries + 1)}

\* the last step of p's loop, taken without a response that passed: the
\* task ends as failed with one of the loop's failure texts
LoopGivesUp(p) ==
    /\ task[p].pc = "generating" /\ task'[p].pc = "done"
    /\ Len(result'.failures) = Len(result.failures) + 1
    /\ result'.failures[Len(result'.failures)] \in LoopFailures(p)

\* C33: a document's loop makes at most max_retries generate calls, and a
\* further call only after a response that raised or was rejected; once the
\* task has ended (a response that passes ends it in the same step) no call
\* is made for it; a loop that ends without a passing response has made
\* max_retries calls, counts the document as failed and leaves the output
\* file and the cache as they are.
C33_RetryLoopBounded ==
    [][ \A p \in Paths :
          /\ task'[p].calls <= cfg'.max_retries
          /\ (task[p].pc = "generating" /\ task'[p].calls # task[p].calls) =>
                /\ task'[p].calls = task[p].calls + 1
                /\ task'[p].pc = "generating"
                /\ UNCHANGED <<out_files, data, result>>
          /\ (task[p].pc = "generating" /\ task'[p].pc \notin {"generating", "cancelled"}
              /\ ~LoopGivesUp(p)) =>
                \* the response passed: the document is written, or the write failed
                \/ task'[p].outcome = "processed" /\ out_files'[p].kind = "yaml"
                \/ task'[p].pc = "raised"
                \/ /\ task'[p].outcome = "failed"
                   /\ result'.failures[Len(result'.failures)] = p \o ": Write error"
          /\ task[p].pc \in {"done", "raised", "cancelled"} =>
                (task'[p].calls = task[p].calls /\ task'[p].pc # "generating")
          /\ LoopGivesUp(p) =>
                /\ task[p].calls = cfg.max_retries
                /\ task'[p].outcome = "failed"
                /\ result'.failed = result.failed + 1
                /\ UNCHANGED <<out_files, data, cache_file>>
      ]_vars

\* C33: a loop has given up after more than one call, and another has
\* stopped at a passing response before its last attempt
C33_Witness ==
    /\ cfg.max_retries = MaxRetries
    /\ \E p \in Paths :
        /\ task[p].pc = "done" /\ task[p].outcome = "failed"
        /\ task[p].calls = cfg.max_retries
        /\ Len(result.failures) > 0
        /\ result.failures[Len(result.failures)] \in LoopFailures(p)
    /\ \E q \in Paths :
        /\ task[q].pc = "done" /\ task[q].outcome = "processed"
        /\ task[q].calls < cfg.max_retries


-----------------------------------------------------------------------------
(* Claims about the attempts of one generate call (SpecProvider)           *)

AllTransient(errors) == \A i \in 1..Len(errors) : Transient(errors[i])

\* C34: one generate call never makes more than api_max_retries requests;
\* when it raises after requests that all failed with a transient error, it
\* has made exactly api_max_retries requests and the error it raises is the
\* one the last request raised.
C34_ExhaustedRaisesLastError ==
    gen.pc # "idle" =>
        /\ gen.calls <= gen.api_max_retries
        /\ (gen.pc = "raised" /\ AllTransient(gen.errors)) =>
              /\ gen.calls = gen.api_max_retries
              /\ Len(gen.errors) > 0
              /\ gen.out = gen.errors[Len(gen.errors)]


\* the requests of the call that came after another one: its retries
Retries == IF gen.calls = 0 THEN 0 ELSE gen.calls - 1

\* C35: generate waits only before a retry.  The k-th wait follows the
\* transient failure of attempt k and lasts 2^k seconds, and there are as
\* many waits as retries: no wait is followed by anything but a request.
C35_BackoffOnlyBeforeRetry ==
    gen.pc # "idle" =>
        /\ \A k \in 1..Len(gen.sleeps) :
              gen.sleeps[k] = 2^k /\ Transient(gen.errors[k])
        /\ Len(gen.sleeps) = Retries


-----------------------------------------------------------------------------
(* Claims about the cache entries of a run (Spec)                          *)

\* the entry of p in the index d; None when the index has none
EntryOf(d, p) ==
    IF d.t = "dict" /\ "rules" \in DOMAIN d.items /\ d.items["rules"].t = "dict"
    THEN DictGet(d.items["rules"], p, PyNone)
    ELSE PyNone

\* the output file of p exists, carries a note that is not blank, and hashes
\* to content_hash
OutputMatches(file, content_hash) ==
    /\ file.kind = "yaml"
    /\ file.value.t = "map" /\ MapHas(file.value, "note")
    /\ MapGet(file.value, "note", PyNone).t = "str"
    /\ StripText(MapGet(file.value, "note", PyNone).s) # ""
    /\ compute_rule_hash(file.value).raised = ""
    /\ PyStr(compute_rule_hash(file.value).digest) = content_hash

\* C36: while a run is under way the entry of a document changes only in
\* the step of its task that has written its output file, and the entry
\* recorded then holds the content hash of that file; so in every state of
\* the run up to and including its return, each document processed in the
\* run has an entry that refers to an existing output file with a non-blank
\* note and with the recorded content hash.
C36_EntryOnlyAfterWrite ==
    [][ /\ \A p \in Paths :
             (phase = "running" /\ phase' = "running"
              /\ EntryOf(data', p) # EntryOf(data, p)) =>
                 /\ task[p].pc = "generating"
                 /\ task'[p].pc = "done" /\ task'[p].outcome = "processed"
                 /\ EntryOf(data', p).t = "dict"
                 /\ OutputMatches(out_files'[p],
                                  DictGet(EntryOf(data', p), "content_hash", PyNone))
        /\ \A p \in Paths :
             (phase' \in {"running", "returned"} /\ task'[p].outcome = "processed") =>
                 /\ EntryOf(data', p).t = "dict"
                 /\ OutputMatches(out_files'[p],
                                  DictGet(EntryOf(data', p), "content_hash", PyNone))
      ]_vars

\* C36: a run has returned after it processed a document and recorded its
\* entry, while the write of another document failed
C36_Witness ==
    /\ phase = "returned"
    /\ \E p \in Paths :
        /\ task[p].outcome = "processed"
        /\ EntryOf(data, p).t = "dict"
        /\ out_files[p].kind = "yaml"
    /\ \E q \in Paths :
        /\ task[q].outcome = "failed"
        /\ q \o ": Write error" \in {result.failures[i] : i \in 1..Len(result.failures)}


-----------------------------------------------------------------------------
(* Claims about the termination of a run (SpecLive)                        *)

\* the run can still move: a slot is free, a call is in flight (it comes
\* back and gives its slot back), or a task has raised (gather re-raises)
SlotToCome ==
    \/ sem > 0
    \/ \E q \in Paths : task[q].pc \in {"generating", "raised"}

\* C37: under every concurrency limit the configuration accepts, no task
\* of a run waits for a slot that can never come: while a task waits, a
\* slot is free or one is held by a call that is in flight.
C37_NoTaskWaitsForever ==
    \A p \in Paths :
        (phase = "running" /\ task[p].pc = "waiting") => SlotToCome

====
